---------------------------- MODULE Spec2Model ----------------------------
(***************************************************************************)
(* A model of the 3D chess rules engine and move search of liuzzi/3dchess: *)
(* the Board (piece list + position index, reversible apply/unapply), the  *)
(* move generator and legality filter, the iterative-deepening search      *)
(* driver of the search worker, and the Bot orchestrator.                  *)
(***************************************************************************)
EXTENDS Integers, Sequences, FiniteSets, TLC

(***************************************************************************)
(* Types (types.ts)                                                        *)
(***************************************************************************)
King == "king"
Queen == "queen"
Rook == "rook"
Bishop == "bishop"
Knight == "knight"
Pawn == "pawn"
PieceType == {King, Queen, Rook, Bishop, Knight, Pawn}

White == "white"
Black == "black"
PieceColor == {White, Black}

\* The cube's edge: Board.isInBounds tests 0 <= c < 8.
BoardSize == 8

\* "No piece" (undefined / null); piece objects are numbered from 1.
NoPiece == 0

\* posKey renders `${x},${y},${z}`: distinct triples give distinct keys, so
\* the key of a position is the triple itself.
posKey(p) == <<p[1], p[2], p[3]>>

posEqual(a, b) == a[1] = b[1] /\ a[2] = b[2] /\ a[3] = b[3]

Pos(x, y, z) == <<x, y, z>>

PAdd(p, d) == <<p[1] + d[1], p[2] + d[2], p[3] + d[3]>>

Piece(t, c, p, hm) == [type |-> t, color |-> c, position |-> p, hasMoved |-> hm]

(***************************************************************************)
(* Sequence helpers                                                        *)
(***************************************************************************)
RemoveAt(s, i) == SubSeq(s, 1, i - 1) \o SubSeq(s, i + 1, Len(s))

InsertAt(s, i, e) == SubSeq(s, 1, i - 1) \o <<e>> \o SubSeq(s, i, Len(s))

\* Array.indexOf, 1-based; 0 when absent.
IndexOf(s, e) ==
  IF \E i \in 1..Len(s) : s[i] = e
    THEN CHOOSE i \in 1..Len(s) : s[i] = e /\ \A j \in 1..(i - 1) : s[j] # e
    ELSE 0

Range(s) == {s[i] : i \in 1..Len(s)}

RECURSIVE Flatten(_)
Flatten(ss) == IF ss = <<>> THEN <<>> ELSE Head(ss) \o Flatten(Tail(ss))

RECURSIVE SelectIds(_, _, _)
\* Array.filter over a list of piece ids by a field value.
SelectIds(s, obj, c) ==
  IF s = <<>> THEN <<>>
  ELSE IF obj[Head(s)].color = c
    THEN <<Head(s)>> \o SelectIds(Tail(s), obj, c)
    ELSE SelectIds(Tail(s), obj, c)

(***************************************************************************)
(* Board (board.ts).  A board value is a record                            *)
(*   pieces   : the list of piece objects (ids), in insertion order        *)
(*   pieceMap : posKey -> piece object                                     *)
(*   obj      : the piece objects' fields, by id                           *)
(***************************************************************************)
BACK_RANK == <<Rook, Knight, Bishop, Queen, King, Bishop, Knight, Rook>>

MapSet(m, k, v) == [q \in (DOMAIN m) \cup {k} |-> IF q = k THEN v ELSE m[q]]

MapDelete(m, k) == [q \in (DOMAIN m) \ {k} |-> m[q]]

EmptyMap == [q \in {} |-> NoPiece]

\* Board.addPiece: push to the list and index by position.
addPiece(b, piece) ==
  LET id == Len(b.pieces) + 1 IN
  [pieces |-> Append(b.pieces, id),
   pieceMap |-> MapSet(b.pieceMap, posKey(piece.position), id),
   obj |-> [i \in (DOMAIN b.obj) \cup {id} |-> IF i = id THEN piece ELSE b.obj[i]]]

EmptyBoard == [pieces |-> <<>>, pieceMap |-> EmptyMap, obj |-> [i \in {} |-> 0]]

RECURSIVE AddAll(_, _)
AddAll(b, data) ==
  IF data = <<>> THEN b ELSE AddAll(addPiece(b, Head(data)), Tail(data))

\* Board.reset: both armies on the centre layer z = 3.
ResetData ==
  Flatten([x \in 1..BoardSize |->
             <<Piece(BACK_RANK[x], White, Pos(x - 1, 0, 3), FALSE),
               Piece(Pawn, White, Pos(x - 1, 1, 3), FALSE)>>])
  \o
  Flatten([x \in 1..BoardSize |->
             <<Piece(BACK_RANK[x], Black, Pos(x - 1, 7, 3), FALSE),
               Piece(Pawn, Black, Pos(x - 1, 6, 3), FALSE)>>])

ResetBoard == AddAll(EmptyBoard, ResetData)

\* Board.getPieceAt
getPieceAt(b, pos) ==
  IF posKey(pos) \in DOMAIN b.pieceMap THEN b.pieceMap[posKey(pos)] ELSE NoPiece

\* Board.removePiece
removePiece(b, id) ==
  LET idx == IndexOf(b.pieces, id) IN
  [b EXCEPT !.pieceMap = MapDelete(b.pieceMap, posKey(b.obj[id].position)),
            !.pieces = IF idx >= 1 THEN RemoveAt(b.pieces, idx) ELSE b.pieces]

\* Variant: the mover's old index entry is left behind.
movePiece_keepOldKey(b, id, to) ==
  LET captured == getPieceAt(b, to)
      b1 == IF captured # NoPiece THEN removePiece(b, captured) ELSE b
      o2 == [b1.obj EXCEPT ![id].position = to, ![id].hasMoved = TRUE]
  IN [b1 EXCEPT !.pieceMap = MapSet(b1.pieceMap, posKey(to), id), !.obj = o2]

\* Board.movePiece: the permanent move; returns the board (the captured piece
\* is getPieceAt(b, to) of the board before).
movePiece(b, id, to) ==
  LET captured == getPieceAt(b, to)
      b1 == IF captured # NoPiece THEN removePiece(b, captured) ELSE b
      m1 == MapDelete(b1.pieceMap, posKey(b1.obj[id].position))
      o2 == [b1.obj EXCEPT ![id].position = to, ![id].hasMoved = TRUE]
  IN [b1 EXCEPT !.pieceMap = MapSet(m1, posKey(to), id), !.obj = o2]

\* Board.isInBounds
isInBounds(pos) ==
  /\ pos[1] >= 0 /\ pos[1] < BoardSize
  /\ pos[2] >= 0 /\ pos[2] < BoardSize
  /\ pos[3] >= 0 /\ pos[3] < BoardSize

\* Board.getPiecesOfColor
getPiecesOfColor(b, color) == SelectIds(b.pieces, b.obj, color)

\* Board.findKing: the first King of the colour in list order.
findKing(b, color) ==
  LET ks == {i \in 1..Len(b.pieces) :
               b.obj[b.pieces[i]].type = King /\ b.obj[b.pieces[i]].color = color}
  IN IF ks = {} THEN NoPiece
     ELSE b.pieces[CHOOSE i \in ks : \A j \in ks : i <= j]

\* Board.serialize: the flat list of piece records.
serialize(b) == [i \in 1..Len(b.pieces) |-> b.obj[b.pieces[i]]]

\* Board.deserialize: fresh piece objects, pushed and indexed in data order
\* (a later entry on the same square overwrites the index entry).
deserialize(data) == AddAll(EmptyBoard, data)

\* Board.applyMove (the reversible move): capture the occupant of `to`,
\* relocate the piece, mark it moved; the undo record keeps what unapplyMove
\* needs.
applyMove(b, id, to) ==
  LET captured == getPieceAt(b, to)
      capturedIndex == IF captured # NoPiece THEN IndexOf(b.pieces, captured) ELSE 0
      from == b.obj[id].position
      ps == IF captured # NoPiece /\ capturedIndex >= 1
              THEN RemoveAt(b.pieces, capturedIndex) ELSE b.pieces
      m1 == MapDelete(MapDelete(b.pieceMap, posKey(to)), posKey(from))
      undo == [piece |-> id, from |-> from, to |-> to, captured |-> captured,
               capturedIndex |-> capturedIndex,
               prevHasMoved |-> b.obj[id].hasMoved, prevType |-> b.obj[id].type]
  IN [board |-> [pieces |-> ps,
                 pieceMap |-> MapSet(m1, posKey(to), id),
                 obj |-> [b.obj EXCEPT ![id].position = to, ![id].hasMoved = TRUE]],
      applied |-> undo]

\* Variant: the mover's type is not put back.
unapplyMove_keepType(b, a) ==
  LET o1 == [b.obj EXCEPT ![a.piece].position = a.from,
                          ![a.piece].hasMoved = a.prevHasMoved]
      m1 == MapSet(MapDelete(b.pieceMap, posKey(a.to)), posKey(a.from), a.piece)
  IN IF a.captured = NoPiece
       THEN [pieces |-> b.pieces, pieceMap |-> m1, obj |-> o1]
       ELSE [pieces |-> InsertAt(b.pieces, a.capturedIndex, a.captured),
             pieceMap |-> MapSet(m1, posKey(o1[a.captured].position), a.captured),
             obj |-> o1]

\* Board.unapplyMove: restore position, hasMoved and type of the mover and
\* put a captured piece back on its square and at its list index.
unapplyMove(b, a) ==
  LET o1 == [b.obj EXCEPT ![a.piece].position = a.from,
                          ![a.piece].hasMoved = a.prevHasMoved,
                          ![a.piece].type = a.prevType]
      m1 == MapSet(MapDelete(b.pieceMap, posKey(a.to)), posKey(a.from), a.piece)
  IN IF a.captured = NoPiece
       THEN [pieces |-> b.pieces, pieceMap |-> m1, obj |-> o1]
       ELSE [pieces |-> InsertAt(b.pieces, a.capturedIndex, a.captured),
             pieceMap |-> MapSet(m1, posKey(o1[a.captured].position), a.captured),
             obj |-> o1]

(***************************************************************************)
(* Promotion (promotion.ts)                                                *)
(***************************************************************************)
isPromotionSquare(piece) ==
  IF piece.type # Pawn THEN FALSE
  ELSE LET promoRow == IF piece.color = White THEN 7 ELSE 0
       IN piece.position[2] = promoRow

\* autoPromoteToQueen mutates the piece object in place.
autoPromoteToQueen(b, id) ==
  IF ~isPromotionSquare(b.obj[id]) THEN b
  ELSE [b EXCEPT !.obj = [b.obj EXCEPT ![id].type = Queen]]

(***************************************************************************)
(* Board signature (botWorker.ts)                                          *)
(***************************************************************************)
\* One entry of the signature: `${type}:${color}:${hasMoved ? 1 : 0}:${x}${y}${z}`.
\* The coordinates are single digits printed one after the other.
SignaturePart(piece) ==
  <<piece.type, piece.color, IF piece.hasMoved THEN 1 ELSE 0,
    piece.position[1] * 100 + piece.position[2] * 10 + piece.position[3]>>

\* boardSignature: the piece count and the sorted entries.  A sorted list is
\* determined by how often each entry occurs in it, so the sorted list is
\* kept as the map entry -> number of occurrences.
boardSignature(b) ==
  LET parts == [i \in 1..Len(b.pieces) |-> SignaturePart(b.obj[b.pieces[i]])]
  IN [length |-> Len(b.pieces),
      parts |-> [e \in Range(parts) |-> Cardinality({i \in 1..Len(parts) : parts[i] = e})]]

(***************************************************************************)
(* Move generator (movement.ts)                                            *)
(***************************************************************************)
ROOK_DIRS ==
  << <<1,0,0>>, <<-1,0,0>>, <<0,1,0>>, <<0,-1,0>>, <<0,0,1>>, <<0,0,-1>>,
     <<1,0,1>>, <<1,0,-1>>, <<-1,0,1>>, <<-1,0,-1>>,
     <<0,1,1>>, <<0,1,-1>>, <<0,-1,1>>, <<0,-1,-1>> >>

BISHOP_DIRS ==
  << <<1,1,0>>, <<1,-1,0>>, <<-1,1,0>>, <<-1,-1,0>>,
     <<1,1,1>>, <<1,1,-1>>, <<1,-1,1>>, <<1,-1,-1>>,
     <<-1,1,1>>, <<-1,1,-1>>, <<-1,-1,1>>, <<-1,-1,-1>> >>

QUEEN_DIRS == ROOK_DIRS \o BISHOP_DIRS

KING_DIRS == QUEEN_DIRS

Abs(n) == IF n < 0 THEN -n ELSE n

\* generateKnightMoves: for a, b over [-2,-1,1,2] with |a| # |b|, the three
\* placements of (a, b) on two of the axes.
generateKnightMoves ==
  LET vals == <<-2, -1, 1, 2>> IN
  Flatten([i \in 1..16 |->
    LET a == vals[((i - 1) \div 4) + 1]
        b == vals[((i - 1) % 4) + 1]
    IN IF Abs(a) = Abs(b) THEN <<>>
       ELSE << <<a, b, 0>>, <<a, 0, b>>, <<0, a, b>> >>])

KNIGHT_MOVES == generateKnightMoves

RECURSIVE SlideRay(_, _, _, _)
\* The inner while(true) loop of slideMoves for one direction.
SlideRay(b, color, pos, d) ==
  LET nxt == PAdd(pos, d) IN
  IF ~isInBounds(nxt) THEN <<>>
  ELSE LET occupant == getPieceAt(b, nxt) IN
       IF occupant # NoPiece
         THEN (IF b.obj[occupant].color # color THEN <<nxt>> ELSE <<>>)
         ELSE <<nxt>> \o SlideRay(b, color, nxt, d)

\* Variant: the first occupied cell is a destination whoever stands on it.
slideMoves_ontoAnyPiece(b, id, dirs) ==
  Flatten([i \in 1..Len(dirs) |->
    LET ray == SlideRay(b, b.obj[id].color, b.obj[id].position, dirs[i])
        last == IF ray = <<>> THEN b.obj[id].position ELSE ray[Len(ray)]
        nxt == PAdd(last, dirs[i])
    IN IF ray # <<>> /\ getPieceAt(b, last) # NoPiece THEN ray
       ELSE IF isInBounds(nxt) /\ getPieceAt(b, nxt) # NoPiece THEN Append(ray, nxt)
       ELSE ray])

slideMoves(b, id, dirs) ==
  Flatten([i \in 1..Len(dirs) |->
             SlideRay(b, b.obj[id].color, b.obj[id].position, dirs[i])])

stepMoves(b, id, dirs) ==
  Flatten([i \in 1..Len(dirs) |->
    LET pos == PAdd(b.obj[id].position, dirs[i])
        occupant == getPieceAt(b, pos)
    IN IF ~isInBounds(pos) THEN <<>>
       ELSE IF occupant # NoPiece /\ b.obj[occupant].color = b.obj[id].color
         THEN <<>>
         ELSE <<pos>>])

FwdDir(color) == IF color = White THEN 1 ELSE -1

\* The six forward-diagonal cells of a pawn, in the code's loop order
\* (dz over [-1,0,1], dx over [-1,1]).
PawnCaptureCells(piece) ==
  LET p == piece.position
      f == FwdDir(piece.color)
  IN << <<p[1] - 1, p[2] + f, p[3] - 1>>, <<p[1] + 1, p[2] + f, p[3] - 1>>,
        <<p[1] - 1, p[2] + f, p[3]>>,     <<p[1] + 1, p[2] + f, p[3]>>,
        <<p[1] - 1, p[2] + f, p[3] + 1>>, <<p[1] + 1, p[2] + f, p[3] + 1>> >>

\* Variant: the second step is open to a pawn that has moved, too.
pawnMoves_alwaysTwoSteps(b, id) ==
  LET piece == b.obj[id]
      fwdDir == FwdDir(piece.color)
      p == piece.position
      moveDirs == << <<0, fwdDir, 0>>, <<0, 0, 1>>, <<0, 0, -1>>,
                     <<0, fwdDir, 1>>, <<0, fwdDir, -1>> >>
      pushes ==
        Flatten([i \in 1..Len(moveDirs) |->
          LET d == moveDirs[i]
              step1 == PAdd(p, d)
              step2 == PAdd(step1, d)
          IN IF ~isInBounds(step1) \/ getPieceAt(b, step1) # NoPiece THEN <<>>
             ELSE IF isInBounds(step2)
                     /\ getPieceAt(b, step2) = NoPiece
               THEN <<step1, step2>>
               ELSE <<step1>>])
      caps == PawnCaptureCells(piece)
      captures ==
        Flatten([i \in 1..Len(caps) |->
          LET occ == getPieceAt(b, caps[i]) IN
          IF ~isInBounds(caps[i]) THEN <<>>
          ELSE IF occ # NoPiece /\ b.obj[occ].color # piece.color
            THEN <<caps[i]>> ELSE <<>>])
  IN pushes \o captures

pawnMoves(b, id) ==
  LET piece == b.obj[id]
      fwdDir == FwdDir(piece.color)
      p == piece.position
      moveDirs == << <<0, fwdDir, 0>>, <<0, 0, 1>>, <<0, 0, -1>>,
                     <<0, fwdDir, 1>>, <<0, fwdDir, -1>> >>
      pushes ==
        Flatten([i \in 1..Len(moveDirs) |->
          LET d == moveDirs[i]
              step1 == PAdd(p, d)
              step2 == PAdd(step1, d)
          IN IF ~isInBounds(step1) \/ getPieceAt(b, step1) # NoPiece THEN <<>>
             ELSE IF ~piece.hasMoved /\ isInBounds(step2)
                     /\ getPieceAt(b, step2) = NoPiece
               THEN <<step1, step2>>
               ELSE <<step1>>])
      caps == PawnCaptureCells(piece)
      captures ==
        Flatten([i \in 1..Len(caps) |->
          LET occ == getPieceAt(b, caps[i]) IN
          IF ~isInBounds(caps[i]) THEN <<>>
          ELSE IF occ # NoPiece /\ b.obj[occ].color # piece.color
            THEN <<caps[i]>> ELSE <<>>])
  IN pushes \o captures

getValidMoves(b, id) ==
  LET t == b.obj[id].type IN
  CASE t = Rook -> slideMoves(b, id, ROOK_DIRS)
    [] t = Bishop -> slideMoves(b, id, BISHOP_DIRS)
    [] t = Queen -> slideMoves(b, id, QUEEN_DIRS)
    [] t = King -> stepMoves(b, id, KING_DIRS)
    [] t = Knight -> stepMoves(b, id, KNIGHT_MOVES)
    [] t = Pawn -> pawnMoves(b, id)

\* Variant: a pawn attacks the cell straight ahead of it.
pawnAttackSquares_ahead(b, id) ==
  LET pos == PAdd(b.obj[id].position, <<0, FwdDir(b.obj[id].color), 0>>)
  IN IF isInBounds(pos) THEN <<pos>> ELSE <<>>

pawnAttackSquares(b, id) ==
  LET caps == PawnCaptureCells(b.obj[id]) IN
  Flatten([i \in 1..Len(caps) |->
             IF isInBounds(caps[i]) THEN <<caps[i]>> ELSE <<>>])

\* Raw moves: as getValidMoves, with a pawn's attack squares for its moves.
getRawMoves(b, id) ==
  LET t == b.obj[id].type IN
  CASE t = Rook -> slideMoves(b, id, ROOK_DIRS)
    [] t = Bishop -> slideMoves(b, id, BISHOP_DIRS)
    [] t = Queen -> slideMoves(b, id, QUEEN_DIRS)
    [] t = King -> stepMoves(b, id, KING_DIRS)
    [] t = Knight -> stepMoves(b, id, KNIGHT_MOVES)
    [] t = Pawn -> pawnAttackSquares(b, id)

getOpponent(color) == IF color = White THEN Black ELSE White

isKingInCheck(b, color) ==
  LET king == findKing(b, color) IN
  IF king = NoPiece THEN FALSE
  ELSE LET enemies == getPiecesOfColor(b, getOpponent(color))
           kp == b.obj[king].position
       IN \E i \in 1..Len(enemies) : kp \in Range(getRawMoves(b, enemies[i]))

RECURSIVE LegalLoop(_, _, _, _)
\* The loop of getLegalMoves over the candidates: apply the move on the
\* board, test the mover's King, unapply, keep the move when not in check.
\* The board is mutated in place, so each iteration starts from the board
\* the previous unapplyMove left.  Yields the list and the board afterwards.
LegalLoop(b, id, candidates, legal) ==
  IF candidates = <<>> THEN [legal |-> legal, board |-> b]
  ELSE LET to == Head(candidates)
           ap == applyMove(b, id, to)
           inCheck == isKingInCheck(ap.board, ap.board.obj[id].color)
           b2 == unapplyMove(ap.board, ap.applied)
       IN IF inCheck THEN LegalLoop(b2, id, Tail(candidates), legal)
          ELSE LegalLoop(b2, id, Tail(candidates), Append(legal, to))

\* Variant: the candidates are returned without the King-safety filter.
getLegalMovesRun_unfiltered(b, id) == [legal |-> getValidMoves(b, id), board |-> b]

getLegalMovesRun(b, id) == LegalLoop(b, id, getValidMoves(b, id), <<>>)

getLegalMoves(b, id) == getLegalMovesRun(b, id).legal

RECURSIVE AnyLegalLoop(_, _)
\* The loop shared by isCheckmate and isStalemate: FALSE as soon as a piece
\* of the colour has a legal move; the board is threaded through the calls.
AnyLegalLoop(b, ids) ==
  IF ids = <<>> THEN FALSE
  ELSE LET r == getLegalMovesRun(b, Head(ids)) IN
       IF Len(r.legal) > 0 THEN TRUE ELSE AnyLegalLoop(r.board, Tail(ids))

isCheckmate(b, color) ==
  IF ~isKingInCheck(b, color) THEN FALSE
  ELSE ~AnyLegalLoop(b, getPiecesOfColor(b, color))

\* Variant: the test "not in check" is dropped.
isStalemate_nocheck(b, color) == ~AnyLegalLoop(b, getPiecesOfColor(b, color))

isStalemate(b, color) ==
  IF isKingInCheck(b, color) THEN FALSE
  ELSE ~AnyLegalLoop(b, getPiecesOfColor(b, color))

(***************************************************************************)
(* State                                                                   *)
(***************************************************************************)
VARIABLES
  board,   \* the Board object under consideration
  input,   \* the board as it was handed to the last query or search
  undo,    \* the AppliedMove records not yet unapplied, oldest first, each
           \* with the board as it was before its applyMove
  left,    \* calls the run may still make
  out      \* what the last call returned

boardVars == <<board, input, undo, left, out>>

\* The search worker (botWorker.ts): the request and iterativeSearch's locals.
VARIABLES
  phase,               \* where the worker is: "idle", "searching" (inside
                       \* searchAtDepth's root loop), "passed" (searchAtDepth
                       \* has returned a list), "returned", "threw"
  request,             \* the WorkerRequest: pieces, color, difficulty, rootMoves
  restrictedRootMoves, \* resolveRootMoves' answer
  depth,               \* the deepening loop's variable
  window,              \* the aspiration window of the running pass; 0 when
                       \* the pass runs with (-Infinity, Infinity)
  moves,               \* searchAtDepth's root moves
  scored,              \* searchAtDepth's list of scored root moves
  partial,             \* whether an abort cut the root loop of the pass short
  emergency,           \* whether the pass runs inside guaranteedDepthOne
  bestResult,          \* <<>> stands for null
  completedDepth,
  depthResults

searchVars == <<phase, request, restrictedRootMoves, depth, window, moves, scored,
                partial, emergency, bestResult, completedDepth, depthResults>>

\* The orchestrator (bot.ts): a Bot and one call of pickMove.
VARIABLES
  bot,      \* the Bot: color, difficulty, workerCount (workers.length),
            \* detailed (whether pickMove was given onProgress), and
            \* followed (how many depths of a worker's search are followed)
  pc,       \* where pickMove is: "idle"; "parallel" (awaiting
            \* Promise.allSettled in pickMoveParallel); "nestedSingle"
            \* (awaiting the pickMoveSingle that pickMoveParallel returns);
            \* "fallbackSingle" (awaiting the one in pickMove's catch);
            \* "single" (awaiting the one of a one-worker Bot); "resolved";
            \* "rejected"
  workers,  \* per worker: the request in flight, the worker's depthResults,
            \* requestWorker's latestProgress and how its promise settled
  compare,  \* pickMoveParallel's commonDepth and comparable list
  resp,     \* pickMove's resp
  history   \* what has happened in this pickMove: worker failures and
            \* pickMoveSingle calls

botVars == <<bot, pc, workers, compare, resp, history>>

\* The worker's module-level tables (botWorker.ts), the Game (game.ts)
\* with the handleBotTurn call in flight (main.ts), and the object heap of
\* Boards that are copied across the worker boundary (board.ts).
VARIABLES
  tables,   \* transpositionTable, historyTable and killerMoves, with the
            \* number of the iterativeSearch invocation that is running
  game,     \* the Game's fields (its board is the variable board) and where
            \* handleBotTurn is
  heap,     \* piece objects, position objects and the Boards that refer to
            \* them by address
  call,     \* the call of negamax or quiescence the search is in, with the
            \* nominal depth of the root search it belongs to
  count,    \* the worker's node counter and limits (nodesSearched,
            \* nodeLimit, searchDeadline) through one iterativeSearch
  wire      \* the requestWorker calls made on workers[0], the worker's
            \* message queue, the request it is running and the responses
            \* it has posted that the page has not handled yet

walkVars == <<call, count, wire>>

restVars == <<tables, game, heap, walkVars>>

vars == <<boardVars, searchVars, botVars, restVars>>

NoOut == [kind |-> "none"]

NoRequest == [pieces |-> <<>>, color |-> White, difficulty |-> "easy", rootMoves |-> <<>>]

NoRootMoves == [restricted |-> FALSE, moves |-> <<>>]

\* iterativeSearch's locals before a search.
SearchLocalsIdle ==
  /\ request = NoRequest
  /\ restrictedRootMoves = NoRootMoves
  /\ depth = 0
  /\ window = 0
  /\ moves = <<>>
  /\ scored = <<>>
  /\ partial = FALSE
  /\ emergency = FALSE
  /\ bestResult = <<>>
  /\ completedDepth = 0
  /\ depthResults = <<>>

\* No search is running: the worker's variables at rest.
SearchIdle == phase = "idle" /\ SearchLocalsIdle

NoBot ==
  [color |-> White, difficulty |-> "easy", workerCount |-> 0, detailed |-> FALSE,
   followed |-> 0]

NoPos == <<>>

\* A WorkerResponse; NoPos and <<>> stand for absent fields.
WorkerResponse(type, fromPos, to, score, cd, drs, error) ==
  [type |-> type, fromPos |-> fromPos, to |-> to, score |-> score,
   completedDepth |-> cd, depthResults |-> drs, error |-> error]

NoResp == WorkerResponse("none", NoPos, NoPos, 0, 0, <<>>, "")

NoCompare == [commonDepth |-> 0, comparable |-> <<>>]

NoHistory ==
  [failed |-> FALSE, retried |-> FALSE, singles |-> 0, allFailed |-> FALSE,
   diverged |-> FALSE]

\* No Bot has been constructed.
BotIdle ==
  /\ bot = NoBot
  /\ pc = "idle"
  /\ workers = <<>>
  /\ compare = NoCompare
  /\ resp = NoResp
  /\ history = NoHistory

\* No worker tables and no Game are under consideration.
NoTables == <<>>

NoGame == <<>>

NoHeap == <<>>

NoCall == <<>>

NoCount == <<>>

NoWire == <<>>

WalkIdle == call = NoCall /\ count = NoCount /\ wire = NoWire

RestIdle == tables = NoTables /\ game = NoGame /\ heap = NoHeap /\ WalkIdle

searchLocals == <<request, restrictedRootMoves, depth, window, moves, scored,
                  partial, emergency, bestResult, completedDepth, depthResults>>

(***************************************************************************)
(* Bounds                                                                  *)
(***************************************************************************)
\* Extra pieces of the legality inputs stand on cells with coordinates 0..Reach.
Reach == 1

\* Calls made on a board that starts from a small snapshot.
MaxOps == 2

\* Calls made on a board that starts from reset().
MaxResetOps == 1

\* The deepening loop is followed up to this depth.
DepthCap == 3

\* Moves applied on the board at the same time inside one search.
MaxPly == 2

(***************************************************************************)
(* Legality filter runs: getLegalMoves, isCheckmate and isStalemate on     *)
(* well-formed boards.                                                     *)
(***************************************************************************)
WK0 == Piece(King, White, Pos(0, 0, 0), TRUE)
BK0 == Piece(King, Black, Pos(7, 7, 7), TRUE)

\* The fixed parts of the input boards: the two Kings alone; with a black
\* Queen next to the white King; with a black Queen a knight's move away;
\* with a black Rook on the white King's file.
LegalFixtures ==
  { <<WK0, BK0>>,
    <<WK0, BK0, Piece(Queen, Black, Pos(0, 0, 1), TRUE)>>,
    <<WK0, BK0, Piece(Queen, Black, Pos(0, 2, 1), TRUE)>>,
    <<WK0, BK0, Piece(Rook, Black, Pos(0, 0, 5), TRUE)>> }

ReachCells == {Pos(x, y, z) : x \in 0..Reach, y \in 0..Reach, z \in 0..Reach}

FreePieces ==
  {Piece(t, c, p, hm) : t \in {Queen, Rook, Bishop, Knight}, c \in PieceColor,
                        p \in ReachCells, hm \in {TRUE}}
  \cup
  {Piece(Pawn, c, p, hm) : c \in PieceColor, p \in ReachCells, hm \in BOOLEAN}

FreeFor(f) == {q \in FreePieces : \A i \in 1..Len(f) : f[i].position # q.position}

\* A fixture plus one more piece on a free cell.
LegalInputs == UNION {{Append(f, x) : x \in FreeFor(f)} : f \in LegalFixtures}

LegalInit ==
  /\ board \in {deserialize(d) : d \in LegalInputs}
  /\ input = board
  /\ undo = <<>>
  /\ left = 1
  /\ out = NoOut
  /\ SearchIdle
  /\ BotIdle
  /\ RestIdle

\* A caller asks for the legal moves of a piece on the board.
CallGetLegalMoves(id) ==
  /\ left > 0
  /\ id \in Range(board.pieces)
  /\ LET r == getLegalMovesRun(board, id) IN
       /\ out' = [kind |-> "legal", piece |-> id, moves |-> r.legal]
       /\ board' = r.board
  /\ left' = left - 1
  /\ UNCHANGED <<input, undo, searchVars, botVars, restVars>>

\* Game.endTurn's terminal test for the colour to move: isCheckmate, then
\* isStalemate, on the same board.
CallTerminal(c) ==
  /\ left > 0
  /\ out' = [kind |-> "terminal", color |-> c,
             checkmate |-> isCheckmate(board, c),
             stalemate |-> isStalemate(board, c)]
  /\ left' = left - 1
  /\ UNCHANGED <<board, input, undo, searchVars, botVars, restVars>>

LegalNext ==
  \/ \E id \in 1..4 : CallGetLegalMoves(id)
  \/ \E c \in PieceColor : CallTerminal(c)

SpecLegal == LegalInit /\ [][LegalNext]_vars

\* The legal destinations of a piece, stated on the board value: the
\* pseudo-legal destinations after which, the piece moved there for good
\* (capturing any occupant), the mover's King is not attacked.
LegalSet(b, id) ==
  {t \in Range(getValidMoves(b, id)) :
     ~isKingInCheck(movePiece(b, id, t), b.obj[id].color)}

NoLegalMove(b, c) == \A id \in Range(b.pieces) : b.obj[id].color = c => LegalSet(b, id) = {}

\* C1: the list getLegalMoves returns for a piece holds exactly the
\* pseudo-legal destinations of that piece after which the mover's own King
\* is not in check.
C1_LegalMovesAreSafePseudoLegal ==
  out.kind = "legal" => Range(out.moves) = LegalSet(input, out.piece)

\* A call that dropped at least one pseudo-legal move and kept at least one.
C1_Witness ==
  /\ out.kind = "legal"
  /\ out.moves # <<>>
  /\ Len(out.moves) < Len(getValidMoves(input, out.piece))

\* C4: isCheckmate holds iff the colour is in check and no piece of it has a
\* legal move; isStalemate holds iff the colour is not in check and no piece
\* of it has a legal move; the two never hold together.
C4_CheckmateStalemate ==
  out.kind = "terminal" =>
    /\ out.checkmate <=> (isKingInCheck(input, out.color) /\ NoLegalMove(input, out.color))
    /\ out.stalemate <=> (~isKingInCheck(input, out.color) /\ NoLegalMove(input, out.color))
    /\ ~(out.checkmate /\ out.stalemate)

\* A terminal test that found checkmate.
C4_Witness == out.kind = "terminal" /\ out.checkmate

\* A terminal test that found stalemate.
StalemateReached == out.kind = "terminal" /\ out.stalemate

(***************************************************************************)
(* Board runs: movePiece, removePiece, applyMove (with or without the      *)
(* search's auto-promotion) and unapplyMove, from reset() or deserialize(). *)
(* unapplyMove undoes the most recent applyMove not yet undone; the        *)
(* permanent operations run only while no applied move is outstanding.     *)
(***************************************************************************)
\* Snapshots handed to deserialize: a white Pawn one step from promotion next
\* to a black Knight it can capture while promoting, with a fresh black Pawn;
\* a black Pawn likewise next to a white Knight, with a fresh white Pawn.
BoardInputs ==
  { <<Piece(Pawn, White, Pos(1, 6, 0), TRUE), Piece(Knight, Black, Pos(2, 7, 0), TRUE),
      Piece(Pawn, Black, Pos(0, 6, 1), FALSE)>>,
    <<Piece(Knight, White, Pos(0, 0, 0), FALSE), Piece(Pawn, Black, Pos(1, 1, 1), TRUE),
      Piece(Pawn, White, Pos(0, 1, 0), FALSE)>> }

\* From reset() the runs move the pieces that start on these files.
ResetFiles == {3, 4}

\* The pieces a run operates on.
Movers(b) ==
  IF input = ResetBoard
    THEN {id \in Range(b.pieces) : input.obj[id].position[1] \in ResetFiles}
    ELSE Range(b.pieces)

BoardInit ==
  /\ board \in {ResetBoard} \cup {deserialize(d) : d \in BoardInputs}
  /\ input = board
  /\ undo = <<>>
  /\ left = (IF board = ResetBoard THEN MaxResetOps ELSE MaxOps)
  /\ out = NoOut
  /\ SearchIdle
  /\ BotIdle
  /\ RestIdle

\* Board.movePiece(piece, to) for a pseudo-legal destination.
MovePiece ==
  /\ left > 0
  /\ undo = <<>>
  /\ \E id \in Movers(board) : \E to \in Range(getValidMoves(board, id)) :
       /\ board' = movePiece(board, id, to)
       /\ out' = [kind |-> "moved", captured |-> getPieceAt(board, to)]
  /\ left' = left - 1
  /\ UNCHANGED <<input, undo, searchVars, botVars, restVars>>

\* Board.removePiece(piece) for a piece of the collection.
RemovePiece ==
  /\ left > 0
  /\ undo = <<>>
  /\ \E id \in Movers(board) :
       /\ board' = removePiece(board, id)
       /\ out' = [kind |-> "removed", captured |-> id]
  /\ left' = left - 1
  /\ UNCHANGED <<input, undo, searchVars, botVars, restVars>>

\* applied = board.applyMove(piece, to), followed (auto) or not by
\* autoPromoteToQueen(piece), as the search and the legality filter do.  The
\* caller keeps the undo record and, as runSelfTest does around a search,
\* the signature taken before.
ApplyMove ==
  /\ left > 0
  /\ \E id \in Movers(board) : \E to \in Range(getValidMoves(board, id)) :
     \E auto \in BOOLEAN :
       LET ap == applyMove(board, id, to)
           b1 == IF auto THEN autoPromoteToQueen(ap.board, id) ELSE ap.board
       IN /\ board' = b1
          /\ undo' = Append(undo, [applied |-> ap.applied,
                                   sigBefore |-> boardSignature(board),
                                   promoted |-> b1.obj[id].type # board.obj[id].type])
          /\ out' = [kind |-> "applied", captured |-> ap.applied.captured]
  /\ left' = left - 1
  /\ UNCHANGED <<input, searchVars, botVars, restVars>>

\* board.unapplyMove(applied) for the latest outstanding record.
UnapplyMove ==
  /\ undo # <<>>
  /\ LET top == undo[Len(undo)] IN
       /\ board' = unapplyMove(board, top.applied)
       /\ out' = [kind |-> "unapplied", captured |-> top.applied.captured,
                  promoted |-> top.promoted,
                  sigBefore |-> top.sigBefore,
                  sigAfter |-> boardSignature(unapplyMove(board, top.applied))]
  /\ undo' = SubSeq(undo, 1, Len(undo) - 1)
  /\ UNCHANGED <<input, left, searchVars, botVars, restVars>>

BoardNext == MovePiece \/ RemovePiece \/ ApplyMove \/ UnapplyMove

SpecBoard == BoardInit /\ [][BoardNext]_vars

\* C2: unapplyMove of an applied move brings boardSignature back to what it
\* was before the applyMove, with or without a capture and with or without
\* an autoPromoteToQueen in between.
C2_UnapplyRestoresSignature ==
  out.kind = "unapplied" => out.sigAfter = out.sigBefore

\* An unapplyMove of a capturing move after which the Pawn was promoted.
C2_Witness ==
  /\ out.kind = "unapplied"
  /\ out.captured # NoPiece
  /\ out.promoted

\* An unapplyMove of a move without capture and without promotion.
QuietUnapplyReached ==
  /\ out.kind = "unapplied"
  /\ out.captured = NoPiece
  /\ ~out.promoted

\* The position index and the piece list agree: every listed piece is
\* indexed under the key of its current position, and the index holds
\* nothing else.
IndexConsistent(b) ==
  /\ \A i \in 1..Len(b.pieces) : getPieceAt(b, b.obj[b.pieces[i]].position) = b.pieces[i]
  /\ \A k \in DOMAIN b.pieceMap :
       \E i \in 1..Len(b.pieces) :
         b.pieceMap[k] = b.pieces[i] /\ k = posKey(b.obj[b.pieces[i]].position)
  /\ \A i, j \in 1..Len(b.pieces) : b.pieces[i] = b.pieces[j] => i = j

CaptureUndoneReached ==
  /\ out.kind = "unapplied"
  /\ out.captured # NoPiece
  /\ undo = <<>>

(***************************************************************************)
(* Search worker (botWorker.ts): the iterative-deepening driver.  Scores   *)
(* are not computed: which scored move sorts first, whether the best score *)
(* falls inside the aspiration window, whether a root move raises alpha to *)
(* rootBeta, the order orderMoves yields and whether checkTime aborts      *)
(* below a root move are all left open.                                    *)
(***************************************************************************)
Difficulty == {"easy", "medium", "hard"}

MAX_DEPTH == [easy |-> 2, medium |-> 7, hard |-> 11]

ASPIRATION_BASE == 45

ASPIRATION_MAX == 900

Min(a, b) == IF a < b THEN a ELSE b

\* The candidates getAllMoves pushes for one piece.
MoveCandidates(b, piece, legal) ==
  [j \in 1..Len(legal) |->
     [piece |-> piece, to |-> legal[j], captured |-> getPieceAt(b, legal[j])]]

\* The pieces' candidates, concatenated.
AllCandidates(b, ps) ==
  Flatten([i \in 1..Len(ps) |-> MoveCandidates(b, ps[i], getLegalMoves(b, ps[i]))])

\* getAllMoves: the legal moves of every piece of the colour, in list order.
getAllMoves(b, color) == AllCandidates(b, getPiecesOfColor(b, color))

\* moveKey renders `${posKey(from)}>${posKey(to)}`.
moveKey(from, to) == <<posKey(from), posKey(to)>>

moveKeyOf(b, move) == moveKey(b.obj[move.piece].position, move.to)

samePos(a, b) == a[1] = b[1] /\ a[2] = b[2] /\ a[3] = b[3]

\* legal.find(m => samePos(m.piece.position, rm.fromPos) && samePos(m.to, rm.to)):
\* the indexes of the matching moves.
FindHits(b, legal, rm) ==
  {i \in 1..Len(legal) :
     /\ samePos(b.obj[legal[i].piece].position, rm.fromPos)
     /\ samePos(legal[i].to, rm.to)}

\* The first match, pushed on `selected` when there is one.
SelectHit(legal, hits) ==
  IF hits = {} THEN <<>> ELSE <<legal[CHOOSE i \in hits : \A j \in hits : i <= j]>>

SelectRootMoves(b, legal, rootMoves) ==
  Flatten([k \in 1..Len(rootMoves) |-> SelectHit(legal, FindHits(b, legal, rootMoves[k]))])

\* Variant: the subset is not looked at; every request is searched
\* unrestricted.
resolveRootMoves_ignoresSubset(b, color, rootMoves) == NoRootMoves

\* resolveRootMoves: null without a subset; otherwise, for each requested
\* root move in order, the first legal move with the same squares.
resolveRootMoves(b, color, rootMoves) ==
  IF Len(rootMoves) = 0 THEN NoRootMoves
  ELSE [restricted |-> TRUE,
        moves |-> SelectRootMoves(b, getAllMoves(b, color), rootMoves)]

\* searchAtDepth's first line: rootMoves ?? getAllMoves(board, color).
RootMovesOf(b, color, restricted) ==
  IF restricted.restricted THEN restricted.moves ELSE getAllMoves(b, color)

\* scored.sort((a, b) => b.score - a.score) with entry i scoring highest.
BestFirst(list, i) == <<list[i]>> \o RemoveAt(list, i)

\* autoPromoteToQueen and, after the negamax call, the finally block's
\* unapplyMove.
RootMoveUndo(ap, piece) == unapplyMove(autoPromoteToQueen(ap.board, piece), ap.applied)

\* One root move of searchAtDepth's loop on the board: applyMove,
\* autoPromoteToQueen, the negamax call below it, and the finally block's
\* unapplyMove.  Yields the board afterwards.
RootMoveRound(b, move) == RootMoveUndo(applyMove(b, move.piece, move.to), move.piece)

\* The entry iterativeSearch pushes on depthResults, with two history
\* fields: whether an abort cut the pass short, and how many root moves the
\* pass had scored.
DepthResult(d, result, cut) ==
  [depth |-> d, fromPos |-> result[1].fromPos, to |-> result[1].to,
   interrupted |-> cut, scoredCount |-> Len(result)]

\* iterativeSearch's return value.
SearchResult(result, cd, drs, why) ==
  [kind |-> "result", best |-> result[1], completedDepth |-> cd,
   depthResults |-> drs, why |-> why]

SearchError(msg) == [kind |-> "error", error |-> msg]

\* Requests: the white King held by a black Queen to two legal moves; a
\* position where White also has a Pawn that promotes, with or without
\* capturing, searched on a subset of root moves (one subset names a move
\* that is not legal, one only such a move); a stalemated White.
SearchFixtures ==
  { [pieces |-> <<WK0, BK0, Piece(Queen, Black, Pos(0, 2, 1), TRUE)>>,
     color |-> White,
     subsets |-> { <<>> }],
    [pieces |-> <<WK0, Piece(Queen, Black, Pos(0, 2, 1), TRUE),
                  Piece(Pawn, White, Pos(1, 6, 0), TRUE),
                  Piece(Knight, Black, Pos(2, 7, 0), TRUE),
                  Piece(King, Black, Pos(1, 7, 0), TRUE),
                  Piece(Pawn, Black, Pos(1, 6, 1), TRUE)>>,
     color |-> White,
     subsets |-> { << [fromPos |-> Pos(1, 6, 0), to |-> Pos(2, 7, 0)],
                      [fromPos |-> Pos(0, 0, 0), to |-> Pos(1, 0, 0)] >>,
                   << [fromPos |-> Pos(1, 6, 0), to |-> Pos(1, 7, 0)],
                      [fromPos |-> Pos(1, 6, 0), to |-> Pos(1, 7, 1)] >>,
                   << [fromPos |-> Pos(1, 6, 0), to |-> Pos(1, 7, 0)] >> }],
    [pieces |-> <<WK0, BK0, Piece(Queen, Black, Pos(0, 2, 1), TRUE),
                  Piece(Rook, Black, Pos(1, 1, 0), TRUE)>>,
     color |-> White,
     subsets |-> { <<>> }] }

SearchRequests ==
  UNION {{[pieces |-> f.pieces, color |-> f.color, difficulty |-> d, rootMoves |-> rm] :
            d \in Difficulty, rm \in f.subsets} : f \in SearchFixtures}

\* self.onmessage: the board is deserialized from the request's pieces.
SearchInit ==
  /\ request \in SearchRequests
  /\ board = deserialize(request.pieces)
  /\ input = board
  /\ undo = <<>>
  /\ left = 0
  /\ out = NoOut
  /\ phase = "idle"
  /\ restrictedRootMoves = NoRootMoves
  /\ depth = 0
  /\ window = 0
  /\ moves = <<>>
  /\ scored = <<>>
  /\ partial = FALSE
  /\ emergency = FALSE
  /\ bestResult = <<>>
  /\ completedDepth = 0
  /\ depthResults = <<>>
  /\ BotIdle
  /\ RestIdle

\* iterativeSearch up to the first searchAtDepth's root loop: resolve the
\* root move subset (an empty resolved subset is an error), then the moves
\* of depth 1 (no moves is an error that is not a SearchAborted, so the
\* deepening loop's catch rethrows it).
StartSearch ==
  /\ phase = "idle"
  /\ \E rrm \in {resolveRootMoves(board, request.color, request.rootMoves)} :
     \E ms \in {RootMovesOf(board, request.color, rrm)} :
        /\ restrictedRootMoves' = rrm
        /\ IF rrm.restricted /\ Len(rrm.moves) = 0
             THEN /\ phase' = "threw"
                  /\ out' = SearchError("Worker received empty root move subset")
                  /\ UNCHANGED <<depth, moves>>
             ELSE IF Len(ms) = 0
               THEN /\ phase' = "threw"
                    /\ out' = SearchError("Bot has no legal moves")
                    /\ depth' = 1
                    /\ UNCHANGED moves
               ELSE /\ phase' = "searching"
                    /\ depth' = 1
                    /\ moves' = ms
                    /\ UNCHANGED out
  /\ UNCHANGED <<botVars, restVars, board, input, undo, left, request, window, scored, partial,
                 emergency, bestResult, completedDepth, depthResults>>

\* The root moves of the running pass not scored yet.
Unscored == {i \in 1..Len(moves) :
               \A k \in 1..Len(scored) :
                 moveKey(scored[k].fromPos, scored[k].to) # moveKeyOf(board, moves[i])}

\* One iteration of searchAtDepth's root loop in which negamax returns: the
\* move is scored.  The loop goes on, or ends because the list is exhausted
\* or (under a finite window) alpha reached rootBeta; when it ends the list
\* is sorted and returned.
ScoreRootMove ==
  /\ phase = "searching"
  /\ \E i \in Unscored :
     \E b2 \in {RootMoveRound(board, moves[i])} :
     \E sc \in {Append(scored, [fromPos |-> b2.obj[moves[i].piece].position,
                                to |-> moves[i].to])} :
          /\ board' = b2
          /\ \/ /\ Len(sc) < Len(moves)
                /\ scored' = sc
                /\ phase' = "searching"
             \/ /\ Len(sc) = Len(moves) \/ window # 0
                /\ \E j \in 1..Len(sc) : scored' = BestFirst(sc, j)
                /\ phase' = "passed"
  /\ partial' = FALSE
  /\ UNCHANGED <<botVars, restVars, input, undo, left, out, request, restrictedRootMoves, depth, window,
                 moves, emergency, bestResult, completedDepth, depthResults>>

\* Variant: an abort with no root move scored records the interrupted depth
\* as completed before the loop breaks to the return.
AbortRootMove_recordsDepth ==
  /\ phase = "searching"
  /\ \E i \in Unscored :
     \E b2 \in {RootMoveRound(board, moves[i])} :
       /\ board' = b2
       /\ IF Len(scored) > 0
            THEN /\ \E j \in 1..Len(scored) : scored' = BestFirst(scored, j)
                 /\ phase' = "passed"
                 /\ partial' = TRUE
                 /\ UNCHANGED <<out, moves, window, emergency, completedDepth>>
            ELSE IF emergency
              THEN /\ phase' = "threw"
                   /\ out' = SearchError("SearchAborted")
                   /\ UNCHANGED <<scored, partial, moves, window, emergency, completedDepth>>
              ELSE IF Len(bestResult) = 0
                THEN /\ emergency' = TRUE
                     /\ moves' = RootMovesOf(b2, request.color, restrictedRootMoves)
                     /\ window' = 0
                     /\ phase' = "searching"
                     /\ UNCHANGED <<out, scored, partial, completedDepth>>
                ELSE /\ phase' = "returned"
                     /\ completedDepth' = depth
                     /\ out' = SearchResult(bestResult, depth, depthResults, "abort")
                     /\ UNCHANGED <<scored, partial, moves, window, emergency>>
  /\ UNCHANGED <<botVars, restVars, input, undo, left, request, restrictedRootMoves, depth,
                 bestResult, depthResults>>

\* One iteration of searchAtDepth's root loop in which checkTime throws
\* SearchAborted below the root move; the finally block unapplies the move.
\* With a move already scored the loop breaks and the list scored so far is
\* sorted and returned like a finished one.  With none scored the abort
\* leaves searchAtDepth: the deepening loop's catch runs guaranteedDepthOne
\* when no depth has been accepted yet and otherwise breaks to the return;
\* inside guaranteedDepthOne nothing catches it.
AbortRootMove ==
  /\ phase = "searching"
  /\ \E i \in Unscored :
     \E b2 \in {RootMoveRound(board, moves[i])} :
       /\ board' = b2
       /\ IF Len(scored) > 0
            THEN /\ \E j \in 1..Len(scored) : scored' = BestFirst(scored, j)
                 /\ phase' = "passed"
                 /\ partial' = TRUE
                 /\ UNCHANGED <<out, moves, window, emergency>>
            ELSE IF emergency
              THEN /\ phase' = "threw"
                   /\ out' = SearchError("SearchAborted")
                   /\ UNCHANGED <<scored, partial, moves, window, emergency>>
              ELSE IF Len(bestResult) = 0
                THEN /\ emergency' = TRUE
                     /\ moves' = RootMovesOf(b2, request.color, restrictedRootMoves)
                     /\ window' = 0
                     /\ phase' = "searching"
                     /\ UNCHANGED <<out, scored, partial>>
                ELSE /\ phase' = "returned"
                     /\ out' = SearchResult(bestResult, completedDepth, depthResults, "abort")
                     /\ UNCHANGED <<scored, partial, moves, window, emergency>>
  /\ UNCHANGED <<botVars, restVars, input, undo, left, request, restrictedRootMoves, depth,
                 bestResult, completedDepth, depthResults>>

\* The deepening loop takes the list searchAtDepth returned as the depth's
\* result (under a finite window: when its best score lies inside the
\* window), records the depth, and then either returns (soft deadline from
\* depth 4 on, or maxDepth reached) or starts the next depth with the
\* aspiration window.
AcceptDepth ==
  /\ phase = "passed"
  /\ ~emergency
  /\ bestResult' = scored
  /\ completedDepth' = depth
  /\ depthResults' = Append(depthResults, DepthResult(depth, scored, partial))
  /\ \/ /\ depth >= 4 \/ depth + 1 > MAX_DEPTH[request.difficulty]
        /\ phase' = "returned"
        /\ out' = SearchResult(scored, depth,
                               Append(depthResults, DepthResult(depth, scored, partial)),
                               "loop")
        /\ UNCHANGED <<depth, window, moves, scored, partial>>
     \/ /\ depth + 1 <= MAX_DEPTH[request.difficulty]
        /\ depth + 1 <= DepthCap
        /\ depth' = depth + 1
        /\ window' = ASPIRATION_BASE
        /\ moves' = RootMovesOf(board, request.color, restrictedRootMoves)
        /\ scored' = <<>>
        /\ partial' = FALSE
        /\ phase' = "searching"
        /\ UNCHANGED out
  /\ UNCHANGED <<botVars, restVars, board, input, undo, left, request, restrictedRootMoves, emergency>>

\* The best score fell outside the aspiration window: the window doubles
\* and the depth is searched again, with the full window once the doubled
\* window reaches ASPIRATION_MAX.
WidenWindow ==
  /\ phase = "passed"
  /\ ~emergency
  /\ window # 0
  /\ LET w2 == Min(ASPIRATION_MAX, window * 2) IN
       window' = (IF w2 >= ASPIRATION_MAX THEN 0 ELSE w2)
  /\ moves' = RootMovesOf(board, request.color, restrictedRootMoves)
  /\ scored' = <<>>
  /\ partial' = FALSE
  /\ phase' = "searching"
  /\ UNCHANGED <<botVars, restVars, board, input, undo, left, out, request, restrictedRootMoves, depth,
                 emergency, bestResult, completedDepth, depthResults>>

\* Variant: the list guaranteedDepthOne returned is lost and the check
\* after the loop finds no bestResult.
FinishEmergency_noResult ==
  /\ phase = "passed"
  /\ emergency
  /\ phase' = "threw"
  /\ out' = SearchError("Bot has no legal moves")
  /\ UNCHANGED <<botVars, restVars, board, input, undo, left, request, restrictedRootMoves, depth, window,
                 moves, scored, partial, emergency, bestResult, completedDepth, depthResults>>

\* guaranteedDepthOne returned a list: it becomes the result of depth 1 and
\* the loop breaks to the return.
FinishEmergency ==
  /\ phase = "passed"
  /\ emergency
  /\ bestResult' = scored
  /\ completedDepth' = 1
  /\ depthResults' = Append(depthResults, DepthResult(1, scored, partial))
  /\ phase' = "returned"
  /\ out' = SearchResult(scored, 1,
                         Append(depthResults, DepthResult(1, scored, partial)),
                         "emergency")
  /\ UNCHANGED <<botVars, restVars, board, input, undo, left, request, restrictedRootMoves, depth, window,
                 moves, scored, partial, emergency>>

SearchNext ==
  \/ StartSearch
  \/ ScoreRootMove
  \/ AbortRootMove
  \/ AcceptDepth
  \/ WidenWindow
  \/ FinishEmergency

SpecSearch == SearchInit /\ [][SearchNext]_vars

\* Whether a move is among a list of candidates of the board.
AmongMoves(b, legal, best) ==
  \E i \in 1..Len(legal) :
    /\ samePos(b.obj[legal[i].piece].position, best.fromPos)
    /\ samePos(legal[i].to, best.to)

\* Whether a returned move is among the legal moves of the root position.
LegalInRoot(b, color, best) == AmongMoves(b, getAllMoves(b, color), best)

\* Whether the colour has a legal move on the board.
HasLegalMove(b, color) ==
  \E id \in Range(b.pieces) : b.obj[id].color = color /\ LegalSet(b, id) # {}

\* The request names no root move subset, or one with a legal move in it.
SubsetUsable == ~(restrictedRootMoves.restricted /\ Len(restrictedRootMoves.moves) = 0)

ReturnedMoveIsLegal ==
  phase = "returned" =>
    /\ out.kind = "result"
    /\ out.completedDepth >= 1
    /\ LegalInRoot(input, request.color, out.best)

AbortWithNothingScoredReached ==
  out.kind = "result" /\ out.why = "abort" /\ out.completedDepth >= 1

\* C12: a search for a side without a legal move ends with the error
\* 'Bot has no legal moves' and never with a move; a search for a side with
\* a legal move never ends with that error, whether or not an abort (the
\* deadline or the node ceiling, both raised by checkTime) cut it short.
C12_NoLegalMovesIsNotAnAbort ==
  phase \in {"returned", "threw"} =>
    IF HasLegalMove(input, request.color)
      THEN out # SearchError("Bot has no legal moves")
      ELSE out = SearchError("Bot has no legal moves")

\* The search of the stalemated position ended with 'Bot has no legal moves'.
C12_Witness ==
  /\ phase = "threw"
  /\ out = SearchError("Bot has no legal moves")
  /\ ~HasLegalMove(input, request.color)
  /\ ~restrictedRootMoves.restricted

\* An abort before any root move was scored at depth 1 ended in a move
\* through guaranteedDepthOne.
AbortEndedInMoveReached ==
  /\ phase = "returned"
  /\ emergency
  /\ out.kind = "result"
  /\ HasLegalMove(input, request.color)

(***************************************************************************)
(* The search tree on the board: every place of the worker that applies a  *)
(* move does so around a try / finally that unapplies it.  "search" moves  *)
(* are those of searchAtDepth's, negamax's and quiescence's loops, below   *)
(* which checkTime may throw; "probe" moves are those orderMoves,          *)
(* staticExchangeApprox, quiescenceMoves and getLegalMoves try out, below  *)
(* which nothing throws.  After a null move either colour may be the one   *)
(* to move at a node.                                                      *)
(***************************************************************************)
\* A white Pawn that promotes by capturing a Knight next to the black King;
\* a black Pawn that promotes by capturing a Knight next to the white King.
TreeInputs ==
  { <<WK0, Piece(Pawn, White, Pos(1, 6, 0), TRUE),
      Piece(Knight, Black, Pos(2, 7, 0), TRUE), Piece(King, Black, Pos(1, 7, 0), TRUE)>>,
    <<BK0, Piece(Pawn, Black, Pos(1, 1, 1), TRUE),
      Piece(Knight, White, Pos(0, 0, 0), TRUE), Piece(King, White, Pos(1, 0, 1), TRUE)>> }

TreeInit ==
  /\ board \in {deserialize(d) : d \in TreeInputs}
  /\ input = board
  /\ undo = <<>>
  /\ left = 0
  /\ out = NoOut
  /\ phase = "searching"
  /\ SearchLocalsIdle
  /\ BotIdle
  /\ RestIdle

\* The record kept between an applyMove and its finally block.
Frame(kind, before, ap, b1) ==
  [applied |-> ap.applied, kind |-> kind,
   promoted |-> b1.obj[ap.applied.piece].type # before.obj[ap.applied.piece].type]

\* A loop of searchAtDepth, negamax or quiescence applies a legal move and
\* auto-promotes; the recursive call comes next.
SearchMove ==
  /\ phase = "searching"
  /\ Len(undo) < MaxPly
  /\ IF undo = <<>> THEN TRUE ELSE undo[Len(undo)].kind = "search"
  /\ \E id \in Range(board.pieces) : \E to \in Range(getLegalMoves(board, id)) :
     \E ap \in {applyMove(board, id, to)} :
     \E b1 \in {autoPromoteToQueen(ap.board, id)} :
       /\ board' = b1
       /\ undo' = Append(undo, Frame("search", board, ap, b1))
  /\ UNCHANGED <<input, left, out, phase, searchLocals, botVars, restVars>>

\* orderMoves, staticExchangeApprox (capture, then recapture), quiescenceMoves
\* or getLegalMoves tries a move out on the board, auto-promoting or not.
ProbeMove ==
  /\ phase = "searching"
  /\ Len(undo) < MaxPly
  /\ \E id \in Range(board.pieces) : \E to \in Range(getValidMoves(board, id)) :
     \E auto \in BOOLEAN :
     \E ap \in {applyMove(board, id, to)} :
     \E b1 \in {IF auto THEN autoPromoteToQueen(ap.board, id) ELSE ap.board} :
       /\ board' = b1
       /\ undo' = Append(undo, Frame("probe", board, ap, b1))
  /\ UNCHANGED <<input, left, out, phase, searchLocals, botVars, restVars>>

\* checkTime throws SearchAborted on entry to the negamax or quiescence call
\* below the latest search move.
CheckTimeAbort ==
  /\ phase = "searching"
  /\ undo # <<>>
  /\ undo[Len(undo)].kind = "search"
  /\ phase' = "aborting"
  /\ out' = [kind |-> "aborted", plies |-> Len(undo),
             captured |-> \E k \in 1..Len(undo) : undo[k].applied.captured # NoPiece,
             promoted |-> \E k \in 1..Len(undo) : undo[k].promoted]
  /\ UNCHANGED <<botVars, restVars, board, input, undo, left, searchLocals, botVars>>

\* Variant: the unapplyMove follows the call instead of sitting in a finally
\* block, so a passing SearchAborted skips it.
FinallyUnapply_skippedOnAbort ==
  /\ phase \in {"searching", "aborting"}
  /\ undo # <<>>
  /\ board' = (IF phase = "aborting" THEN board
                ELSE unapplyMove(board, undo[Len(undo)].applied))
  /\ undo' = SubSeq(undo, 1, Len(undo) - 1)
  /\ UNCHANGED <<input, left, out, phase, searchLocals, botVars, restVars>>

\* A finally block: board.unapplyMove(applied), whether the try block
\* completed or SearchAborted is passing through.
FinallyUnapply ==
  /\ phase \in {"searching", "aborting"}
  /\ undo # <<>>
  /\ board' = unapplyMove(board, undo[Len(undo)].applied)
  /\ undo' = SubSeq(undo, 1, Len(undo) - 1)
  /\ UNCHANGED <<input, left, out, phase, searchLocals, botVars, restVars>>

\* iterativeSearch is left: by its return (also after an abort that the
\* deepening loop caught) or by the abort escaping.
LeaveSearch ==
  /\ undo = <<>>
  /\ \/ phase \in {"searching", "aborting"} /\ phase' = "returned"
     \/ phase = "aborting" /\ phase' = "threw"
  /\ UNCHANGED <<botVars, restVars, board, input, undo, left, out, searchLocals, botVars>>

TreeNext ==
  \/ SearchMove
  \/ ProbeMove
  \/ CheckTimeAbort
  \/ FinallyUnapply
  \/ LeaveSearch

SpecSearchTree == TreeInit /\ [][TreeNext]_vars

\* C7: once iterativeSearch has returned or thrown, wherever the abort
\* fired, the board is the board before the call: same pieces in the same
\* list order, same positions, types and hasMoved flags, same index.
C7_BoardRestoredAfterSearch ==
  phase \in {"returned", "threw"} => board = input /\ undo = <<>>

\* A search that threw after an abort two moves deep, below a capture and a
\* promotion.
C7_Witness ==
  /\ phase = "threw"
  /\ out.kind = "aborted"
  /\ out.plies >= 2
  /\ out.captured
  /\ out.promoted

(***************************************************************************)
(* The orchestrator (bot.ts): Bot.pickMove with its workers.  A worker is  *)
(* seen through the messages botWorker.ts posts: a progress message for    *)
(* each accepted depth (and, in detailed mode, for scored root moves), and *)
(* a result or an error at the end.                                        *)
(***************************************************************************)
\* Bot.getWorkerCount
getWorkerCount(difficulty, cores) ==
  IF difficulty # "hard" THEN 1 ELSE IF cores <= 2 THEN 1 ELSE 2

\* The capture and threat values of buildRootMoves.
RootValue(type) ==
  CASE type = King -> 10000
    [] type = Queen -> 900
    [] type = Rook -> 500
    [] type = Bishop -> 330
    [] type = Knight -> 320
    [] OTHER -> 100

Max(a, b) == IF a > b THEN a ELSE b

RECURSIVE ThreatValue(_, _, _, _, _)
\* buildRootMoves' loop over getValidMoves(board, piece) after the move.
ThreatValue(b, color, squares, capturing, sofar) ==
  IF squares = <<>> THEN sofar
  ELSE LET occ == getPieceAt(b, Head(squares)) IN
       IF occ # NoPiece /\ b.obj[occ].color # color
         THEN ThreatValue(b, color, Tail(squares), capturing,
                          Max(sofar, IF capturing THEN 0 ELSE RootValue(b.obj[occ].type)))
         ELSE ThreatValue(b, color, Tail(squares), capturing, sofar)

\* One candidate of buildRootMoves: the move is applied, looked at and
\* unapplied; yields the entry and the board afterwards.
RootTrial(b, color, openingPhase, c) ==
  LET piece == c.piece
      captureValue == IF c.captured # NoPiece THEN RootValue(b.obj[c.captured].type) ELSE 0
      wasUnmoved == ~b.obj[piece].hasMoved
      wasPawn == b.obj[piece].type = Pawn
      ap == applyMove(b, piece, c.to)
      threatValue == ThreatValue(ap.board, color, getValidMoves(ap.board, piece),
                                 c.captured # NoPiece, 0)
      givesCheck == isKingInCheck(ap.board, getOpponent(color))
      after == unapplyMove(ap.board, ap.applied)
      base == captureValue * 10 + threatValue * 3 + (IF givesCheck THEN 800 ELSE 0)
      opening ==
        IF ~openingPhase THEN 0
        ELSE (IF ~wasPawn /\ wasUnmoved THEN 95 ELSE 0)
             - (IF wasPawn /\ c.captured = NoPiece THEN 40 ELSE 0)
             + (IF after.obj[piece].type \in {Knight, Bishop} /\ wasUnmoved THEN 30 ELSE 0)
  IN [entry |-> [fromPos |-> b.obj[piece].position, to |-> c.to,
                 ordering |-> base + opening],
      board |-> after]

\* all.sort((a, b) => b.ordering - a.ordering), a stable sort: the entry goes
\* behind the entries that order at least as high.
InsertByOrdering(sorted, e) ==
  LET ahead == Cardinality({i \in 1..Len(sorted) : sorted[i].ordering >= e.ordering})
  IN SubSeq(sorted, 1, ahead) \o <<e>> \o SubSeq(sorted, ahead + 1, Len(sorted))

RECURSIVE BuildLoop(_, _, _, _, _)
BuildLoop(b, color, openingPhase, cands, sorted) ==
  IF cands = <<>> THEN [all |-> sorted, board |-> b]
  ELSE LET t == RootTrial(b, color, openingPhase, Head(cands))
       IN BuildLoop(t.board, color, openingPhase, Tail(cands),
                    InsertByOrdering(sorted, t.entry))

\* Bot.buildRootMoves: the root moves, ordered, and the board afterwards.
buildRootMovesRun(b, color) ==
  LET run == BuildLoop(b, color, Len(b.pieces) >= 28, getAllMoves(b, color), <<>>)
  IN [rootMoves |-> [i \in 1..Len(run.all) |->
                       [fromPos |-> run.all[i].fromPos, to |-> run.all[i].to]],
      board |-> run.board]

\* Variant: the list is cut into n runs of neighbours, one per worker.
Bucket_runs(rootMoves, n, idx) ==
  LET size == (Len(rootMoves) + n - 1) \div n
      first == (idx - 1) * size + 1
      last == Min(idx * size, Len(rootMoves))
  IN IF first > last THEN <<>> ELSE SubSeq(rootMoves, first, last)

\* buckets[i % buckets.length].push(rootMoves[i]), with 0-based i.
Bucket(rootMoves, n, idx) ==
  LET picks == {i \in 1..Len(rootMoves) : (i - 1) % n = idx - 1}
  IN [k \in 1..Cardinality(picks) |-> rootMoves[(k - 1) * n + idx]]

\* The root moves an unrestricted worker searches: getAllMoves on the
\* deserialized snapshot, as positions.
AllRootMoves(b, color) ==
  LET snapshot == deserialize(serialize(b))
      all == getAllMoves(snapshot, color)
  IN [i \in 1..Len(all) |->
        [fromPos |-> snapshot.obj[all[i].piece].position, to |-> all[i].to]]

NoProgress ==
  [progressKind |-> "none", fromPos |-> NoPos, to |-> NoPos, score |-> 0, completedDepth |-> 0]

\* A worker nothing was sent to.
IdleWorker ==
  [status |-> "idle", restricted |-> FALSE, rootMoves |-> <<>>, depthResults |-> <<>>,
   latestProgress |-> NoProgress, value |-> NoResp]

\* requestWorker: the request is posted and the listeners are installed.
RequestWorker(restricted, rootMoves) ==
  [status |-> "pending", restricted |-> restricted, rootMoves |-> rootMoves,
   depthResults |-> <<>>, latestProgress |-> NoProgress, value |-> NoResp]

\* The scores a worker may report.
Scores == {10, 30}

\* The worker's deepening loop is followed up to this depth.
MaxWorkerDepth == 2

Awaiting == {"parallel", "nestedSingle", "fallbackSingle", "single"}

Fulfilled == {"result", "progressResult", "error"}

Rejected == {"errorEvent", "timeout"}

\* The cells a move that changes the live board during the wait may go to.
ChangeCells == {Pos(0, 0, 1), Pos(2, 0, 2)}

\* How a request can fail: an error response, an error event, or a timeout
\* before any progress.
Failures == {"error", "errorEvent", "timeout"}

\* The white King in its corner with two legal moves, (1,0,0) and (0,0,1),
\* the black King and a Knight covering the others; and the same with a
\* second Knight covering these two: no legal move, no check.
BotFixtures ==
  { <<WK0, Piece(King, Black, Pos(0, 2, 0), TRUE),
      Piece(Knight, Black, Pos(1, 2, 2), TRUE)>>,
    <<WK0, Piece(King, Black, Pos(0, 2, 0), TRUE),
      Piece(Knight, Black, Pos(1, 2, 2), TRUE),
      Piece(Knight, Black, Pos(2, 0, 2), TRUE)>> }

BotInputs ==
  [pieces : BotFixtures, color : {White}, difficulty : Difficulty,
   cores : {2, 4}, detailed : BOOLEAN]

BotInit ==
  /\ \E in \in BotInputs :
       /\ board = deserialize(in.pieces)
       /\ bot = [color |-> in.color, difficulty |-> in.difficulty,
                 workerCount |-> getWorkerCount(in.difficulty, in.cores),
                 detailed |-> in.detailed, followed |-> MaxWorkerDepth]
  /\ input = board
  /\ undo = <<>>
  /\ left = 0
  /\ out = NoOut
  /\ pc = "idle"
  /\ workers = [w \in 1..bot.workerCount |-> IdleWorker]
  /\ compare = NoCompare
  /\ resp = NoResp
  /\ history = NoHistory
  /\ SearchIdle
  /\ RestIdle

\* pickMoveSingle: a full search is requested of workers[0].
DispatchSingle(b, at, h) ==
  /\ pc' = at
  /\ workers' = [w \in 1..bot.workerCount |->
                   IF w = 1 THEN RequestWorker(FALSE, AllRootMoves(b, bot.color))
                   ELSE IdleWorker]
  /\ history' = [h EXCEPT !.singles = @ + 1, !.retried = @ \/ h.failed]

\* Variant: pickMove has no catch around pickMoveParallel, whose failure
\* rejects pickMove.
CatchParallelFailure_rethrows(b, h) ==
  /\ pc' = "rejected"
  /\ workers' = workers
  /\ history' = h
  /\ out' = [kind |-> "rejected", error |-> "No worker returned a move"]

\* pickMove's catch around pickMoveParallel: pickMoveSingle is called.
CatchParallelFailure(b, h) ==
  /\ DispatchSingle(b, "fallbackSingle", h)
  /\ out' = out

\* Variant: the move is checked for its piece only, not for legality.
Validate_pieceOnly(b, r) ==
  IF r.type = "error" THEN [out |-> [kind |-> "rejected", error |-> r.error], board |-> b]
  ELSE LET piece == getPieceAt(b, r.fromPos) IN
       IF piece = NoPiece
         THEN [out |-> [kind |-> "rejected", error |-> "Worker returned invalid piece position"],
               board |-> b]
       ELSE [out |-> [kind |-> "resolved", piece |-> piece, to |-> r.to], board |-> b]

\* The end of pickMove: the response is checked against the board as it is
\* now.  Yields what pickMove settles with and the board afterwards.
Validate(b, r) ==
  IF r.type = "error" THEN [out |-> [kind |-> "rejected", error |-> r.error], board |-> b]
  ELSE LET piece == getPieceAt(b, r.fromPos) IN
       IF piece = NoPiece
         THEN [out |-> [kind |-> "rejected", error |-> "Worker returned invalid piece position"],
               board |-> b]
       ELSE LET run == getLegalMovesRun(b, piece) IN
            IF \E i \in 1..Len(run.legal) : samePos(run.legal[i], r.to)
              THEN [out |-> [kind |-> "resolved", piece |-> piece, to |-> r.to],
                    board |-> run.board]
              ELSE [out |-> [kind |-> "rejected", error |-> "Worker returned illegal move"],
                    board |-> run.board]

\* pickMove settles on the response r.
Settle(r) ==
  \E v \in {Validate(board, r)} :
    /\ resp' = r
    /\ out' = v.out
    /\ board' = v.board
    /\ pc' = v.out.kind

\* pickMove is called.  With several workers pickMoveParallel builds the
\* root moves, deals them round-robin and requests every worker that got
\* some; without a legal move it throws and the catch calls pickMoveSingle.
PickMove ==
  /\ pc = "idle"
  /\ IF bot.workerCount > 1
       THEN \E run \in {buildRootMovesRun(board, bot.color)} :
              IF Len(run.rootMoves) = 0
                THEN /\ CatchParallelFailure(run.board, history)
                     /\ board' = run.board
                     /\ input' = run.board
                ELSE /\ pc' = "parallel"
                     /\ workers' =
                          [w \in 1..bot.workerCount |->
                             IF Len(Bucket(run.rootMoves, bot.workerCount, w)) > 0
                               THEN RequestWorker(TRUE, Bucket(run.rootMoves, bot.workerCount, w))
                               ELSE IdleWorker]
                     /\ board' = run.board
                     /\ input' = run.board
                     /\ UNCHANGED <<history, out>>
       ELSE /\ DispatchSingle(board, "single", history)
            /\ UNCHANGED <<board, input, out>>
  /\ UNCHANGED <<undo, left, bot, compare, resp, searchVars, restVars>>

\* The worker accepts a depth and posts its 'depth' progress message;
\* requestWorker's onMessage keeps it as latestProgress.
PostDepthProgress(w) ==
  /\ pc \in Awaiting
  /\ workers[w].status = "pending"
  /\ Len(workers[w].depthResults) < Min(MAX_DEPTH[bot.difficulty], bot.followed)
  /\ \E i \in 1..Len(workers[w].rootMoves) : \E s \in Scores :
       workers' = [workers EXCEPT
         ![w].depthResults =
            Append(@, [depth |-> Len(@) + 1, fromPos |-> workers[w].rootMoves[i].fromPos,
                       to |-> workers[w].rootMoves[i].to, score |-> s]),
         ![w].latestProgress =
            [progressKind |-> "depth", fromPos |-> workers[w].rootMoves[i].fromPos,
             to |-> workers[w].rootMoves[i].to, score |-> s,
             completedDepth |-> Len(workers[w].depthResults) + 1]]
  /\ UNCHANGED <<boardVars, searchVars, restVars, bot, pc, compare, resp, history>>

\* In detailed mode the worker posts a 'rootMove' progress message for a
\* root move scored at the depth in progress; onMessage keeps it too.
PostRootMoveProgress(w) ==
  /\ pc \in Awaiting
  /\ bot.detailed
  /\ workers[w].status = "pending"
  /\ Len(workers[w].depthResults) < Min(MAX_DEPTH[bot.difficulty], bot.followed)
  /\ \E i \in 1..Len(workers[w].rootMoves) : \E s \in Scores :
       workers' = [workers EXCEPT
         ![w].latestProgress =
            [progressKind |-> "rootMove", fromPos |-> workers[w].rootMoves[i].fromPos,
             to |-> workers[w].rootMoves[i].to, score |-> s,
             completedDepth |-> Len(workers[w].depthResults) + 1]]
  /\ UNCHANGED <<boardVars, searchVars, restVars, bot, pc, compare, resp, history>>

\* The worker posts its result: the last accepted depth's best move, with
\* every accepted depth in depthResults.  onMessage resolves with it.
PostResult(w) ==
  /\ pc \in Awaiting
  /\ workers[w].status = "pending"
  /\ Len(workers[w].depthResults) >= 1
  /\ \E last \in {workers[w].depthResults[Len(workers[w].depthResults)]} :
       workers' = [workers EXCEPT
         ![w].status = "result",
         ![w].latestProgress = NoProgress,
         ![w].value = WorkerResponse("result", last.fromPos, last.to, last.score,
                                     last.depth, workers[w].depthResults, "")]
  /\ UNCHANGED <<boardVars, searchVars, restVars, bot, pc, compare, resp, history>>

\* The worker's search threw and self.onmessage posts {type: 'error'};
\* onMessage resolves with it.  The search's depthResults are gone, and so
\* is the settled request's latestProgress.
PostError(w) ==
  /\ pc \in Awaiting
  /\ workers[w].status = "pending"
  /\ workers' = [workers EXCEPT
       ![w].status = "error",
       ![w].depthResults = <<>>,
       ![w].latestProgress = NoProgress,
       ![w].value = WorkerResponse("error", NoPos, NoPos, 0, 0, <<>>, "search threw")]
  /\ history' = [history EXCEPT !.failed = TRUE]
  /\ UNCHANGED <<boardVars, searchVars, restVars, bot, pc, compare, resp>>

\* The worker raises an error event: onError rejects.
ErrorEvent(w) ==
  /\ pc \in Awaiting
  /\ workers[w].status = "pending"
  /\ workers' = [workers EXCEPT ![w].status = "errorEvent",
                                ![w].depthResults = <<>>,
                                ![w].latestProgress = NoProgress]
  /\ history' = [history EXCEPT !.failed = TRUE]
  /\ UNCHANGED <<boardVars, searchVars, restVars, bot, pc, compare, resp>>

\* Variant: the timer never fires.
Timeout_never(w) ==
  /\ FALSE
  /\ UNCHANGED vars

\* requestWorker's timer fires first: the request resolves with the latest
\* progress message turned into a result, or rejects when there is none.
Timeout(w) ==
  /\ pc \in Awaiting
  /\ workers[w].status = "pending"
  /\ IF workers[w].latestProgress.fromPos # NoPos /\ workers[w].latestProgress.to # NoPos
       THEN /\ workers' = [workers EXCEPT
                 ![w].status = "progressResult",
                 ![w].latestProgress = NoProgress,
                 ![w].value = WorkerResponse("result", workers[w].latestProgress.fromPos,
                                  workers[w].latestProgress.to, workers[w].latestProgress.score,
                                  workers[w].latestProgress.completedDepth, <<>>, "")]
            /\ UNCHANGED history
       ELSE /\ workers' = [workers EXCEPT ![w].status = "timeout", ![w].depthResults = <<>>]
            /\ history' = [history EXCEPT !.failed = TRUE]
  /\ UNCHANGED <<boardVars, searchVars, restVars, bot, pc, compare, resp>>

\* While pickMove waits, a move is made on the live board it was given,
\* once.  No handler reads the board during the wait, so the move is taken
\* right after a dispatch.
BoardChange ==
  /\ pc \in Awaiting
  /\ board = input
  /\ \A w \in DOMAIN workers :
       workers[w].status \in {"idle", "pending"} /\ workers[w].depthResults = <<>>
         /\ workers[w].latestProgress = NoProgress
  /\ \E id \in Range(board.pieces) :
       \E to \in Range(getLegalMoves(board, id)) \cap ChangeCells :
         board' = applyMove(board, id, to).board
  /\ UNCHANGED <<input, undo, left, out, searchVars, botVars, restVars>>

\* Variant: the completed depths are never taken to be apart.
depthSpread_none(commonDepth, maxDepth) == 0

\* pickMoveParallel's depthSpread.
depthSpread(commonDepth, maxDepth) == maxDepth - commonDepth

\* The first entry of comparable.sort((a, b) => b.score - a.score).
HighestScore(comparable) ==
  comparable[CHOOSE i \in 1..Len(comparable) :
               /\ \A j \in 1..Len(comparable) : comparable[j].score <= comparable[i].score
               /\ \A j \in 1..(i - 1) : comparable[j].score < comparable[i].score]

\* One entry of comparable: the worker's depthResults entry of commonDepth,
\* or else the response's own move and score.
Comparable(w, r, commonDepth) ==
  LET at == {k \in 1..Len(r.depthResults) : r.depthResults[k].depth = commonDepth}
  IN IF at # {}
       THEN LET k == CHOOSE k \in at : \A m \in at : k <= m IN
            [worker |-> w, fromPos |-> r.depthResults[k].fromPos,
             to |-> r.depthResults[k].to, score |-> r.depthResults[k].score]
       ELSE [worker |-> w, fromPos |-> r.fromPos, to |-> r.to, score |-> r.score]

\* The workers whose promise fulfilled with a result that has a move.
ResultWorkers(ws) ==
  SelectSeq([w \in 1..Len(ws) |-> w],
            LAMBDA w : /\ ws[w].status \in Fulfilled
                       /\ ws[w].value.type = "result"
                       /\ ws[w].value.fromPos # NoPos
                       /\ ws[w].value.to # NoPos)

\* Promise.allSettled has settled and pickMoveParallel goes on: without a
\* result it throws and pickMove's catch calls pickMoveSingle; with
\* completed depths more than 2 apart it returns pickMoveSingle; otherwise
\* the results are compared and pickMove checks the best.
ResumeParallel ==
  /\ pc = "parallel"
  /\ \A w \in DOMAIN workers : workers[w].status # "pending"
  /\ \E results \in {ResultWorkers(workers)} :
     \E allFailed \in {\A w \in DOMAIN workers :
                          workers[w].status \in Failures \cup {"idle"}} :
       IF Len(results) = 0
         THEN /\ CatchParallelFailure(board, [history EXCEPT !.allFailed = allFailed])
              /\ UNCHANGED <<board, input, compare, resp>>
         ELSE \E depths \in {{workers[results[k]].value.completedDepth : k \in 1..Len(results)}} :
              \E commonDepth \in {d \in depths : \A e \in depths : d <= e} :
              \E maxDepth \in {d \in depths : \A e \in depths : d >= e} :
                IF depthSpread(commonDepth, maxDepth) > 2
                  THEN /\ DispatchSingle(board, "nestedSingle",
                                         [history EXCEPT !.allFailed = allFailed,
                                                         !.diverged = TRUE])
                       /\ UNCHANGED <<board, input, out, compare, resp>>
                  ELSE \E comparable \in {[k \in 1..Len(results) |->
                                            Comparable(results[k], workers[results[k]].value,
                                                       commonDepth)]} :
                       \E best \in {HighestScore(comparable)} :
                         /\ compare' = [commonDepth |-> commonDepth, comparable |-> comparable]
                         /\ Settle(WorkerResponse("result", best.fromPos, best.to, best.score,
                                                  commonDepth,
                                                  workers[best.worker].value.depthResults, ""))
                         /\ history' = [history EXCEPT !.allFailed = allFailed]
                         /\ UNCHANGED <<input, workers>>
  /\ UNCHANGED <<undo, left, bot, searchVars, restVars>>

\* A pickMoveSingle has settled.  Fulfilled, pickMove checks the response;
\* rejected inside pickMoveParallel, pickMove's catch calls pickMoveSingle
\* once more; rejected anywhere else, pickMove rejects.
ResumeSingle ==
  /\ pc \in {"nestedSingle", "fallbackSingle", "single"}
  /\ workers[1].status \notin {"idle", "pending"}
  /\ IF workers[1].status \in Fulfilled
       THEN /\ Settle(workers[1].value)
            /\ UNCHANGED <<input, workers, history>>
       ELSE IF pc = "nestedSingle"
         THEN /\ CatchParallelFailure(board, history)
              /\ UNCHANGED <<board, input, resp>>
         ELSE /\ pc' = "rejected"
              /\ out' = [kind |-> "rejected",
                         error |-> IF workers[1].status = "timeout"
                                     THEN "Worker timeout before any depth completed"
                                     ELSE "worker error event"]
              /\ UNCHANGED <<board, input, resp, workers, history>>
  /\ UNCHANGED <<undo, left, bot, compare, searchVars, restVars>>

BotNext ==
  \/ PickMove
  \/ \E w \in DOMAIN workers : PostDepthProgress(w)
  \/ \E w \in DOMAIN workers : PostRootMoveProgress(w)
  \/ \E w \in DOMAIN workers : PostResult(w)
  \/ \E w \in DOMAIN workers : PostError(w)
  \/ \E w \in DOMAIN workers : ErrorEvent(w)
  \/ \E w \in DOMAIN workers : Timeout(w)
  \/ BoardChange
  \/ ResumeParallel
  \/ ResumeSingle

SpecBot == BotInit /\ [][BotNext]_vars

\* The response passes pickMove's checks on the board b.
ValidOn(b, r) ==
  /\ r.type # "error"
  /\ getPieceAt(b, r.fromPos) # NoPiece
  /\ r.to \in Range(getLegalMoves(b, getPieceAt(b, r.fromPos)))

\* C8: pickMove resolves with (piece, to) only if, on the board as it is
\* when the response is processed, a piece stands on the response's
\* from-square and to is among its legal moves; on an error response, an
\* empty from-square or a move that is not legal it rejects without a move.
C8_ResolvesOnlyCurrentlyLegalMove ==
  /\ pc = "resolved" =>
       /\ ValidOn(board, resp)
       /\ out = [kind |-> "resolved", piece |-> getPieceAt(board, resp.fromPos),
                 to |-> resp.to]
  /\ pc = "rejected" =>
       /\ out.kind = "rejected"
       /\ resp # NoResp => ~ValidOn(board, resp)

\* A response whose piece still stands on its square is rejected because
\* the board changed during the wait and the move is no longer legal.
C8_Witness ==
  /\ pc = "rejected"
  /\ board # input
  /\ out.error = "Worker returned illegal move"

\* pickMove resolved although the board changed during the wait.
ResolvedAfterChangeReached == pc = "resolved" /\ board # input

\* The response's from-square was emptied during the wait.
EmptiedSquareReached ==
  pc = "rejected" /\ out.error = "Worker returned invalid piece position"

\* The entry of comparable is the worker's move and score of commonDepth.
AtCommonDepth(c, drs, commonDepth) ==
  /\ Len(drs) >= commonDepth
  /\ c.fromPos = drs[commonDepth].fromPos
  /\ c.to = drs[commonDepth].to
  /\ c.score = drs[commonDepth].score

\* C9: in pickMoveParallel every worker's candidate is its move and score
\* at commonDepth, the least completedDepth of the workers that returned a
\* result, and the returned move is the candidate with the highest such
\* score.
C9_ComparedAtCommonDepth ==
  compare # NoCompare =>
    /\ \A k \in 1..Len(compare.comparable) :
         /\ AtCommonDepth(compare.comparable[k],
                          workers[compare.comparable[k].worker].depthResults,
                          compare.commonDepth)
         /\ compare.comparable[k].score <= resp.score
    /\ \E k \in 1..Len(compare.comparable) :
         /\ compare.comparable[k].fromPos = resp.fromPos
         /\ compare.comparable[k].to = resp.to
         /\ compare.comparable[k].score = resp.score

\* A worker whose request timed out after the progress message of a depth
\* beyond commonDepth takes part in the comparison with that depth's move
\* and score.
C9_OwnDepthCompared ==
  /\ compare # NoCompare
  /\ \E k \in 1..Len(compare.comparable) :
       /\ workers[compare.comparable[k].worker].status = "progressResult"
       /\ workers[compare.comparable[k].worker].value.completedDepth > compare.commonDepth
       /\ ~AtCommonDepth(compare.comparable[k],
                         workers[compare.comparable[k].worker].depthResults,
                         compare.commonDepth)

\* When every compared worker posted its result, the comparison is made at
\* commonDepth.
PostedResultsComparedAtCommonDepth ==
  (compare # NoCompare
     /\ \A k \in 1..Len(compare.comparable) :
          workers[compare.comparable[k].worker].status = "result")
  => C9_ComparedAtCommonDepth

\* C10 as stated: whenever a worker failed, pickMove has run a single-worker
\* search after the failure before it rejects, with any number of workers.
C10_SingleSearchAfterAnyFailure ==
  (pc = "rejected" /\ history.failed) => history.retried

\* C10: with more than one worker, when every requested worker failed (error
\* response, error event, or timeout before any progress), pickMove runs a
\* single-worker search before it rejects; with one worker, pickMove runs
\* one search and rejects on its failure without a retry.
C10_FallbackAfterFailedParallel ==
  pc = "rejected" =>
    /\ (bot.workerCount > 1 /\ history.allFailed) => history.retried
    /\ bot.workerCount = 1 => history.singles = 1 /\ ~history.retried

\* Both workers failed, the single-worker search was run and pickMove
\* rejected after it.
C10_Witness ==
  /\ pc = "rejected"
  /\ bot.workerCount > 1
  /\ history.allFailed
  /\ history.retried

\* The worker of a one-worker Bot failed and pickMove rejected.
OneWorkerFailureReached ==
  pc = "rejected" /\ bot.workerCount = 1 /\ history.failed

(***************************************************************************)
(* pickMoveParallel with workers that get to different depths: a hard Bot  *)
(* with two workers, each followed for MaxSpreadDepth depths.              *)
(***************************************************************************)
\* The workers' deepening loops are followed up to this depth here.
MaxSpreadDepth == 4

SpreadInit ==
  /\ board = deserialize(<<WK0, Piece(King, Black, Pos(0, 2, 0), TRUE),
                           Piece(Knight, Black, Pos(1, 2, 2), TRUE)>>)
  /\ bot = [color |-> White, difficulty |-> "hard",
            workerCount |-> getWorkerCount("hard", 4),
            detailed |-> FALSE, followed |-> MaxSpreadDepth]
  /\ input = board
  /\ undo = <<>>
  /\ left = 0
  /\ out = NoOut
  /\ pc = "idle"
  /\ workers = [w \in 1..bot.workerCount |-> IdleWorker]
  /\ compare = NoCompare
  /\ resp = NoResp
  /\ history = NoHistory
  /\ SearchIdle
  /\ RestIdle

SpreadNext ==
  \/ PickMove
  \/ \E w \in DOMAIN workers : PostDepthProgress(w)
  \/ \E w \in DOMAIN workers : PostResult(w)
  \/ \E w \in DOMAIN workers : PostError(w)
  \/ \E w \in DOMAIN workers : ErrorEvent(w)
  \/ \E w \in DOMAIN workers : Timeout(w)
  \/ ResumeParallel
  \/ ResumeSingle

SpecBotSpread == SpreadInit /\ [][SpreadNext]_vars

\* The completed depths of the workers whose request gave a result.
ResultDepths(ws) ==
  {ws[w].value.completedDepth :
     w \in {v \in DOMAIN ws : ws[v].status \in {"result", "progressResult"}}}

\* The largest completed depth minus the smallest.
SpreadOf(ws) ==
  LET ds == ResultDepths(ws)
  IN (CHOOSE d \in ds : \A e \in ds : d >= e) - (CHOOSE d \in ds : \A e \in ds : d <= e)

\* The move of r is worker w's returned move or one of its depthResults.
FromWorker(ws, w, r) ==
  /\ ws[w].status \in {"result", "progressResult"}
  /\ \/ r.fromPos = ws[w].value.fromPos /\ r.to = ws[w].value.to
     \/ \E k \in 1..Len(ws[w].value.depthResults) :
          /\ r.fromPos = ws[w].value.depthResults[k].fromPos
          /\ r.to = ws[w].value.depthResults[k].to

SpreadOfTwoComparedReached ==
  /\ compare # NoCompare
  /\ ResultDepths(workers) = {1, 3}

(***************************************************************************)
(* hashBoard (botWorker.ts), the key of the transposition table.  A 32-bit *)
(* word is a pair <<high half, low half>> of 16-bit numbers, so that the   *)
(* wrap-around of Math.imul and of the bitwise operators is computed.      *)
(***************************************************************************)
Half == 2 ^ 16

RECURSIVE XorBits(_, _, _)
\* a ^ b on the low n bits.
XorBits(a, b, n) ==
  IF n = 0 THEN 0
  ELSE (((a % 2) + (b % 2)) % 2) + 2 * XorBits(a \div 2, b \div 2, n - 1)

\* x ^ y on 32-bit words.
XorWord(x, y) == <<XorBits(x[1], y[1], 16), XorBits(x[2], y[2], 16)>>

\* A number below 2^31 as a 32-bit word.
Word(n) == <<n \div Half, n % Half>>

\* The product of two 16-bit numbers as a 32-bit word.
Mul16(a, b) ==
  LET p0 == a * (b % 256)
      p1 == a * (b \div 256)
      lo == (p0 % Half) + (p1 % 256) * 256
      hi == (p0 \div Half) + (p1 \div 256) + (lo \div Half)
  IN <<hi % Half, lo % Half>>

\* Math.imul: the low 32 bits of the product.
imul(x, y) ==
  LET ll == Mul16(x[2], y[2])
  IN <<(ll[1] + Mul16(x[1], y[2])[2] + Mul16(x[2], y[1])[2]) % Half, ll[2]>>

\* (x + n) | 0 for a number n below 2^16.
AddWord(x, n) == <<(x[1] + ((x[2] + n) \div Half)) % Half, (x[2] + n) % Half>>

pieceTypeIndex(type) ==
  CASE type = Pawn -> 1
    [] type = Knight -> 2
    [] type = Bishop -> 3
    [] type = Rook -> 4
    [] type = Queen -> 5
    [] type = King -> 6

\* The code hashBoard's loop forms of one piece; its fields occupy disjoint
\* bits, so | is +.
PieceCode(p) ==
  LET t == pieceTypeIndex(p.type)
      c == IF p.color = White THEN 1 ELSE 2
      hm == IF p.hasMoved THEN 1 ELSE 0
      sq == (p.position[1] % 8) + (p.position[2] % 8) * 8 + (p.position[3] % 8) * 64
  IN t + c * 8 + hm * 32 + sq * 64

\* One iteration of hashBoard's loop over board.pieces.
HashStep(h, code) ==
  [h1 |-> imul(XorWord(h.h1, Word(code)), <<256, 403>>),
   h2 |-> imul(XorWord(AddWord(h.h2, code), Word(code * 128)), <<34283, 51831>>)]

RECURSIVE HashLoop(_, _, _)
HashLoop(b, ps, h) ==
  IF ps = <<>> THEN h ELSE HashLoop(b, Tail(ps), HashStep(h, PieceCode(b.obj[Head(ps)])))

\* hashBoard: `${h1 >>> 0}:${h2 >>> 0}:${board.pieces.length}`.
hashBoard(b, toMove) ==
  LET h == HashLoop(b, b.pieces, [h1 |-> <<33052, 40389>>, h2 |-> <<40503, 31161>>])
  IN <<XorWord(h.h1, Word(Len(b.pieces) * 131)),
       XorWord(h.h2, Word((IF toMove = White THEN 17 ELSE 29) * 257)),
       Len(b.pieces)>>

\* The cells the two white Knights of the hashed positions stand on.
KnightCells ==
  {Pos(1, 2, 0), Pos(2, 1, 0), Pos(2, 2, 1), Pos(3, 3, 3), Pos(5, 5, 5), Pos(4, 0, 5)}

\* Two positions with the same pieces: the Kings, and two moved white
\* Knights on two cells; with `swapped` the Knights have changed places, so
\* that the second list holds them in the other order.
HashInputs ==
  {[first |-> <<WK0, BK0, Piece(Knight, White, c1, TRUE), Piece(Knight, White, c2, TRUE)>>,
    second |-> IF swapped
                 THEN <<WK0, BK0, Piece(Knight, White, c2, TRUE),
                        Piece(Knight, White, c1, TRUE)>>
                 ELSE <<WK0, BK0, Piece(Knight, White, c1, TRUE),
                        Piece(Knight, White, c2, TRUE)>>,
    toMove |-> color] :
     c1 \in KnightCells, c2 \in KnightCells, swapped \in BOOLEAN, color \in PieceColor}

\* board is the first position and input the second.
HashInit ==
  /\ \E in \in {i \in HashInputs : i.first[3].position # i.first[4].position} :
       /\ board = deserialize(in.first)
       /\ input = deserialize(in.second)
       /\ out = [kind |-> "toHash", toMove |-> in.toMove]
  /\ undo = <<>>
  /\ left = 0
  /\ SearchIdle
  /\ BotIdle
  /\ RestIdle

\* negamax's `const hash = hashBoard(board, toMove)` on the two positions.
CallHashBoard ==
  /\ out.kind = "toHash"
  /\ out' = [kind |-> "hash", toMove |-> out.toMove,
             first |-> hashBoard(board, out.toMove),
             second |-> hashBoard(input, out.toMove)]
  /\ UNCHANGED <<board, input, undo, left, searchVars, botVars, restVars>>

HashNext == CallHashBoard

SpecHash == HashInit /\ [][HashNext]_vars

\* The pieces of a board as a set of (type, colour, hasMoved, position).
PieceSet(b) == {b.obj[id] : id \in Range(b.pieces)}

\* C14: two boards that hold the same set of pieces, in whatever list
\* order, with the same side to move, get the same hashBoard key.
C14_HashOrderIndependent ==
  (out.kind = "hash" /\ PieceSet(board) = PieceSet(input)) => out.first = out.second

\* Two boards with the same pieces in different list orders got different
\* keys.
C14_OrderChangesKey ==
  /\ out.kind = "hash"
  /\ PieceSet(board) = PieceSet(input)
  /\ serialize(board) # serialize(input)
  /\ out.first # out.second

\* What does hold: boards with the same piece list get the same key.
SameListSameKey ==
  (out.kind = "hash" /\ serialize(board) = serialize(input)) => out.first = out.second

(***************************************************************************)
(* The worker's tables across the requests one worker handles.  The tables *)
(* are module-level Maps of botWorker.ts; every entry carries the number   *)
(* of the iterativeSearch invocation that wrote it.                        *)
(***************************************************************************)
MAX_TT_ENTRIES == 180000

\* Requests one worker handles.
MaxInvocations == 2

\* The positions whose keys the searches store and probe: one with White to
\* move and the one after the King's step, with Black to move.
TableKeys ==
  {hashBoard(deserialize(<<WK0, BK0>>), White),
   hashBoard(deserialize(<<Piece(King, White, Pos(1, 0, 0), TRUE), BK0>>), Black)}

\* The quiet moves whose cutoffs are registered, as moveKeys.
TableMoves ==
  {moveKey(Pos(0, 0, 0), Pos(1, 0, 0)), moveKey(Pos(7, 7, 7), Pos(6, 7, 7))}

TablePlies == {0, 1}

NoRead == [table |-> "none", writtenIn |-> 0, readIn |-> 0]

\* Map.set on a table of entries [key, writtenIn].
TableSet(t, key, inv) == {e \in t : e.key # key} \cup {[key |-> key, writtenIn |-> inv]}

\* Map.get: the entries under the key (none or one).
TableGet(t, key) == {e \in t : e.key = key}

\* The worker has been created: the module's tables are empty Maps.
TablesInit ==
  /\ tables = [transpositionTable |-> {}, historyTable |-> {}, killerMoves |-> {},
               invocation |-> 0, running |-> FALSE, read |-> NoRead]
  /\ game = NoGame
  /\ heap = NoHeap
  /\ WalkIdle
  /\ board = EmptyBoard
  /\ input = EmptyBoard
  /\ undo = <<>>
  /\ left = 0
  /\ out = NoOut
  /\ SearchIdle
  /\ BotIdle

\* iterativeSearch's prologue: the transposition table is cleared only when
\* it holds more than MAX_TT_ENTRIES entries; historyTable and killerMoves
\* are cleared.
BeginSearch ==
  /\ ~tables.running
  /\ tables.invocation < MaxInvocations
  /\ tables' = [tables EXCEPT
       !.invocation = @ + 1,
       !.running = TRUE,
       !.transpositionTable =
          IF Cardinality(@) > MAX_TT_ENTRIES THEN {} ELSE @,
       !.historyTable = {},
       !.killerMoves = {},
       !.read = NoRead]
  /\ UNCHANGED <<boardVars, searchVars, botVars, game, heap, walkVars>>

\* negamax's store at its end, and iterativeSearch's seeding of the root
\* entry: clear when over MAX_TT_ENTRIES, then set.
StoreTransposition ==
  /\ tables.running
  /\ \E key \in TableKeys :
       tables' = [tables EXCEPT
         !.transpositionTable =
            TableSet(IF Cardinality(@) > MAX_TT_ENTRIES THEN {} ELSE @,
                     key, tables.invocation)]
  /\ UNCHANGED <<boardVars, searchVars, botVars, game, heap, walkVars>>

\* negamax's and extractPrincipalVariation's transpositionTable.get(hash)
\* that finds an entry.
ProbeTransposition ==
  /\ tables.running
  /\ \E key \in TableKeys : \E e \in TableGet(tables.transpositionTable, key) :
       tables' = [tables EXCEPT
         !.read = [table |-> "transpositionTable", writtenIn |-> e.writtenIn,
                   readIn |-> tables.invocation]]
  /\ UNCHANGED <<boardVars, searchVars, botVars, game, heap, walkVars>>

\* registerCutoff for a quiet move: the history count and the ply's killers
\* are set.
RegisterCutoff ==
  /\ tables.running
  /\ \E key \in TableMoves : \E ply \in TablePlies :
       tables' = [tables EXCEPT
         !.historyTable = TableSet(@, key, tables.invocation),
         !.killerMoves = TableSet(@, ply, tables.invocation)]
  /\ UNCHANGED <<boardVars, searchVars, botVars, game, heap, walkVars>>

\* orderMoves: killerMoves.get(ply) and, through historyScore,
\* historyTable.get(key), one of which finds an entry.
OrderMoves ==
  /\ tables.running
  /\ \/ \E key \in TableMoves : \E e \in TableGet(tables.historyTable, key) :
          tables' = [tables EXCEPT
            !.read = [table |-> "historyTable", writtenIn |-> e.writtenIn,
                      readIn |-> tables.invocation]]
     \/ \E ply \in TablePlies : \E e \in TableGet(tables.killerMoves, ply) :
          tables' = [tables EXCEPT
            !.read = [table |-> "killerMoves", writtenIn |-> e.writtenIn,
                      readIn |-> tables.invocation]]
  /\ UNCHANGED <<boardVars, searchVars, botVars, game, heap, walkVars>>

\* iterativeSearch returns or throws; the tables stay as they are.
EndSearch ==
  /\ tables.running
  /\ tables' = [tables EXCEPT !.running = FALSE]
  /\ UNCHANGED <<boardVars, searchVars, botVars, game, heap, walkVars>>

TablesNext ==
  \/ BeginSearch
  \/ StoreTransposition
  \/ ProbeTransposition
  \/ RegisterCutoff
  \/ OrderMoves
  \/ EndSearch

SpecTables == TablesInit /\ [][TablesNext]_vars

\* Every entry of the table was written by the running invocation.
OwnEntries(t) == \A e \in t : e.writtenIn = tables.invocation

\* C13: every iterativeSearch invocation starts with empty transposition,
\* history and killer tables, so that while it runs the tables hold only
\* its own entries and no read finds an entry of an earlier invocation.
C13_NoTableEntryOutlivesItsSearch ==
  /\ tables.running =>
       /\ OwnEntries(tables.transpositionTable)
       /\ OwnEntries(tables.historyTable)
       /\ OwnEntries(tables.killerMoves)
  /\ tables.read.writtenIn = tables.read.readIn

\* The second invocation's probe found a transposition entry the first
\* invocation stored.
C13_EarlierEntryRead ==
  /\ tables.running
  /\ tables.read.table = "transpositionTable"
  /\ tables.read.writtenIn < tables.read.readIn

\* What does hold: historyTable and killerMoves hold only the running
\* invocation's entries, and no read of them finds an earlier one.
HistoryAndKillersAreOwn ==
  /\ tables.running =>
       OwnEntries(tables.historyTable) /\ OwnEntries(tables.killerMoves)
  /\ tables.read.table \in {"historyTable", "killerMoves"} =>
       tables.read.writtenIn = tables.read.readIn

(***************************************************************************)
(* The Game (game.ts) in local and bot mode, with handleBotTurn (main.ts).  *)
(* The Game's board is the variable board.  A handleBotTurn call in flight  *)
(* is at "pickMove" (awaiting bot.pickMove), "arrived" (the worker's        *)
(* message has resolved the request; its continuation runs before any other *)
(* event) or "sleep" (the easy-mode delay), where it holds the move pickMove *)
(* returned.  Piece objects are told apart by the board generation they     *)
(* were created in: reset() creates fresh ones.                             *)
(***************************************************************************)
\* endTurn calls followed in one run.
MaxTurns == 3

\* reset() calls followed in one run.
MaxResets == 1

\* PROMO_CHOICES of the promotion dialog.
PromoChoices == {Queen, Rook, Bishop, Knight}

\* The cells the player clicks.
ClickCells ==
  {Pos(1, 6, 0), Pos(1, 7, 0), Pos(5, 1, 5), Pos(5, 0, 5), Pos(4, 1, 3), Pos(4, 2, 3)}

GameModes ==
  {[type |-> "local", difficulty |-> "none"],
   [type |-> "bot", difficulty |-> "easy"],
   [type |-> "bot", difficulty |-> "medium"]}

Call(at, r, piece, gen, fields, to) ==
  [at |-> at, resp |-> r, piece |-> piece, gen |-> gen, fields |-> fields, to |-> to]

\* handleBotTurn awaits bot.pickMove.
PendingCall == Call("pickMove", NoResp, NoPiece, 0, <<>>, NoPos)

\* What the last handler was and what it was given.
Last(op, piece, gen, to, type) ==
  [op |-> op, piece |-> piece, gen |-> gen, to |-> to, type |-> type]

\* Game.isBotTurn; the Bot plays Black.
isBotTurn(g) == g.mode.type = "bot" /\ g.currentTurn = Black

\* The cells the worker's answers lead to.
AnswerCells == {Pos(5, 0, 5), Pos(7, 6, 7), Pos(4, 5, 3)}

\* What the worker posts for the snapshot pickMoveSingle serialized: a legal
\* move of the Bot's colour, or an error.
BotAnswers(b) ==
  {WorkerResponse("error", NoPos, NoPos, 0, 0, <<>>, "search threw")}
  \cup UNION {UNION {{WorkerResponse("result", snapshot.obj[all[i].piece].position,
                                      all[i].to, 0, 1, <<>>, "") :
                        i \in {j \in 1..Len(all) : all[j].to \in AnswerCells}} :
                     all \in {getAllMoves(snapshot, Black)}} :
              snapshot \in {deserialize(serialize(b))}}

\* Game.endTurn: the turn passes, checkmate and stalemate end the game, and
\* on the Bot's turn botThinking is set and the 'botTurn' event starts
\* handleBotTurn, which posts the board's snapshot to the worker.  Yields
\* the Games that can result, one per answer the worker will give.
endTurn(b, g) ==
  UNION {IF ~g1.gameOver /\ isBotTurn(g1)
           THEN {[g1 EXCEPT !.botThinking = TRUE,
                            !.calls = Append(@, PendingCall),
                            !.queue = Append(@, r)] : r \in BotAnswers(b)}
           ELSE {g1} :
         g1 \in {[g EXCEPT !.currentTurn = getOpponent(@),
                           !.gameOver = IF isCheckmate(b, getOpponent(g.currentTurn)) THEN TRUE
                                        ELSE IF isStalemate(b, getOpponent(g.currentTurn))
                                          THEN TRUE ELSE @,
                           !.turns = @ + 1]}}

\* Game.deselect
deselect(g) == [g EXCEPT !.selectedPiece = NoPiece, !.validMoves = <<>>]

\* Variant: the Bot's pawn on its far rank is left a pawn.
executeMove_noBotPromotion(b, g, id, to) ==
  UNION {IF isPromotionSquare(b1.obj[id]) /\ ~(g.mode.type = "bot" /\ b1.obj[id].color = Black)
           THEN {[board |-> b1, game |-> [deselect(g) EXCEPT !.awaitingPromotion = id]]}
           ELSE {[board |-> b1, game |-> g2] : g2 \in endTurn(b1, deselect(g))} :
         b1 \in {movePiece(b, id, to)}}

\* Variant: the turn ends although the promotion is still to be chosen.
executeMove_endsTurn(b, g, id, to) ==
  UNION {IF isPromotionSquare(b1.obj[id])
           THEN IF g.mode.type = "bot" /\ b1.obj[id].color = Black
                  THEN UNION {{[board |-> b2, game |-> g2] : g2 \in endTurn(b2, deselect(g))} :
                              b2 \in {[b1 EXCEPT !.obj[id].type = Queen]}}
                  ELSE {[board |-> b1, game |-> [g2 EXCEPT !.awaitingPromotion = id]] :
                          g2 \in endTurn(b1, deselect(g))}
           ELSE {[board |-> b1, game |-> g2] : g2 \in endTurn(b1, deselect(g))} :
         b1 \in {movePiece(b, id, to)}}

\* Game.executeMove: the piece is moved for good and deselected; the Bot's
\* pawn on its far rank becomes a Queen and the turn ends; any other pawn on
\* its far rank is kept in awaitingPromotion and the turn does not end;
\* otherwise the turn ends.  Yields the boards and Games that can result.
executeMove(b, g, id, to) ==
  UNION {IF isPromotionSquare(b1.obj[id])
           THEN IF g.mode.type = "bot" /\ b1.obj[id].color = Black
                  THEN UNION {{[board |-> b2, game |-> g2] : g2 \in endTurn(b2, deselect(g))} :
                              b2 \in {[b1 EXCEPT !.obj[id].type = Queen]}}
                  ELSE {[board |-> b1, game |-> [deselect(g) EXCEPT !.awaitingPromotion = id]]}
           ELSE {[board |-> b1, game |-> g2] : g2 \in endTurn(b1, deselect(g))} :
         b1 \in {movePiece(b, id, to)}}

\* The pawns and Kings of a game near its end: each side's pawn is one step
\* from its far rank.
GameFixture ==
  <<WK0, BK0, Piece(Pawn, White, Pos(1, 6, 0), TRUE), Piece(Pawn, Black, Pos(5, 1, 5), TRUE)>>

GameInit ==
  /\ board = deserialize(GameFixture)
  /\ \E mode \in GameModes :
       game = [mode |-> mode, currentTurn |-> White, selectedPiece |-> NoPiece,
               validMoves |-> <<>>, gameOver |-> FALSE, awaitingPromotion |-> NoPiece,
               botThinking |-> FALSE, gen |-> 0, resets |-> 0, turns |-> 0,
               calls |-> <<>>, queue |-> <<>>,
               last |-> Last("new", NoPiece, 0, NoPos, "none")]
  /\ tables = NoTables
  /\ heap = NoHeap
  /\ WalkIdle
  /\ input = board
  /\ undo = <<>>
  /\ left = 0
  /\ out = NoOut
  /\ SearchIdle
  /\ BotIdle

\* No continuation of a resolved pickMove is waiting to run.
NoArrived == \A c \in 1..Len(game.calls) : game.calls[c].at # "arrived"

\* Game.handleCellClick
HandleCellClick ==
  /\ NoArrived
  /\ \E pos \in ClickCells :
     \E click \in {Last("handleCellClick", NoPiece, game.gen, pos, "none")} :
       IF game.gameOver \/ game.awaitingPromotion # NoPiece \/ game.botThinking
            \/ isBotTurn(game)
         THEN /\ game' = [game EXCEPT !.last = click]
              /\ board' = board
         ELSE IF game.selectedPiece # NoPiece /\ pos \in Range(game.validMoves)
           THEN /\ game.turns < MaxTurns
                /\ \E r \in executeMove(board, game, game.selectedPiece, pos) :
                     /\ board' = r.board
                     /\ game' = [r.game EXCEPT !.last = click]
           ELSE \E piece \in {getPieceAt(board, pos)} :
                  /\ board' = board
                  /\ IF piece # NoPiece
                       THEN IF board.obj[piece].color = game.currentTurn
                              THEN IF game.selectedPiece = piece
                                     THEN game' = [game EXCEPT !.selectedPiece = NoPiece,
                                                               !.validMoves = <<>>,
                                                               !.last = click]
                                     ELSE game' = [game EXCEPT
                                            !.selectedPiece = piece,
                                            !.validMoves = getLegalMoves(board, piece),
                                            !.last = click]
                              ELSE game' = [game EXCEPT !.selectedPiece = NoPiece,
                                                        !.validMoves = <<>>,
                                                        !.last = click]
                       ELSE game' = [game EXCEPT !.selectedPiece = NoPiece,
                                                 !.validMoves = <<>>,
                                                 !.last = click]
  /\ UNCHANGED <<input, undo, left, out, searchVars, botVars, tables, heap, walkVars>>

\* Game.completePromotion
CompletePromotion ==
  /\ NoArrived
  /\ \E type \in PromoChoices :
     \E done \in {Last("completePromotion", game.awaitingPromotion, game.gen, NoPos, type)} :
       IF game.awaitingPromotion = NoPiece
         THEN /\ game' = [game EXCEPT !.last = done]
              /\ board' = board
         ELSE /\ game.turns < MaxTurns
              /\ \E b1 \in {[board EXCEPT !.obj[game.awaitingPromotion].type = type]} :
                 \E g2 \in endTurn(b1, [game EXCEPT !.awaitingPromotion = NoPiece]) :
                   /\ board' = b1
                   /\ game' = [g2 EXCEPT !.last = done]
  /\ UNCHANGED <<input, undo, left, out, searchVars, botVars, tables, heap, walkVars>>

\* Game.reset (the New Game button): the Board is reset in place, with fresh
\* piece objects, and the Game's fields are reset; a handleBotTurn call in
\* flight stays in flight.
Reset ==
  /\ NoArrived
  /\ game.resets < MaxResets
  /\ board' = ResetBoard
  /\ game' = [game EXCEPT !.currentTurn = White, !.selectedPiece = NoPiece,
                          !.validMoves = <<>>, !.gameOver = FALSE,
                          !.awaitingPromotion = NoPiece, !.botThinking = FALSE,
                          !.gen = @ + 1, !.resets = @ + 1,
                          !.last = Last("reset", NoPiece, game.gen + 1, NoPos, "none")]
  /\ UNCHANGED <<input, undo, left, out, searchVars, botVars, tables, heap, walkVars>>

\* The worker posts its answer to the oldest request: onMessage resolves
\* every requestWorker promise that has its listener on the worker.
DeliverAnswer ==
  /\ NoArrived
  /\ game.queue # <<>>
  /\ game' = [game EXCEPT
       !.queue = Tail(@),
       !.calls = [c \in 1..Len(@) |->
                    IF @[c].at = "pickMove"
                      THEN Call("arrived", Head(game.queue), NoPiece, 0, <<>>, NoPos)
                      ELSE @[c]],
       !.last = Last("message", NoPiece, game.gen, NoPos, "none")]
  /\ UNCHANGED <<board, input, undo, left, out, searchVars, botVars, tables, heap, walkVars>>

\* The piece object a handleBotTurn call holds, on the board: itself when it
\* is of the board's generation, and otherwise an object the board's list
\* does not hold.  Yields the board with the object and the object's id.
HeldPiece(b, g, held) ==
  IF held.gen = g.gen THEN [board |-> b, piece |-> held.piece]
  ELSE LET id == Cardinality(DOMAIN b.obj) + 1
       IN [board |-> [b EXCEPT !.obj = [i \in (DOMAIN b.obj) \cup {id} |->
                                          IF i = id THEN held.fields ELSE b.obj[i]]],
           piece |-> id]

\* Variant: the held move is applied only when its piece is on the board
\* and the move is legal for the side to move.
applyBotMove_checked(b, g, held) ==
  IF g.gameOver \/ ~isBotTurn(g) THEN {[board |-> b, game |-> g, applied |-> FALSE]}
  ELSE IF held.gen # g.gen THEN {[board |-> b, game |-> [g EXCEPT !.botThinking = FALSE],
                                  applied |-> FALSE]}
  ELSE IF held.to \notin Range(getLegalMoves(b, held.piece))
    THEN {[board |-> b, game |-> [g EXCEPT !.botThinking = FALSE], applied |-> FALSE]}
  ELSE {[board |-> r.board, game |-> [r.game EXCEPT !.botThinking = FALSE],
         applied |-> TRUE] :
          r \in executeMove(b, [g EXCEPT !.botThinking = FALSE], held.piece, held.to)}

\* handleBotTurn after its awaits: nothing when the game is over or it is
\* not the Bot's turn; otherwise botThinking is cleared and game.makeMove
\* executes the move; makeMove returns nothing, so the throw that follows
\* is caught and botThinking cleared again.
applyBotMove(b, g, held) ==
  IF g.gameOver \/ ~isBotTurn(g) THEN {[board |-> b, game |-> g, applied |-> FALSE]}
  ELSE UNION {{[board |-> r.board, game |-> [r.game EXCEPT !.botThinking = FALSE],
                 applied |-> TRUE] :
                  r \in executeMove(h.board, [g EXCEPT !.botThinking = FALSE],
                                    h.piece, held.to)} :
              h \in {HeldPiece(b, g, held)}}

\* The handleBotTurn call c goes on with the move it holds.
GoOn(b, g, c, held) ==
  /\ g.turns < MaxTurns
  /\ \E r \in applyBotMove(b, [g EXCEPT !.calls = RemoveAt(@, c)], held) :
       /\ board' = r.board
       /\ game' = [r.game EXCEPT
            !.last = Last(IF r.applied THEN "botMove" ELSE "botDropped",
                          held.piece, held.gen, held.to, "none")]

\* The continuation of the first resolved pickMove: pickMove checks the
\* response against the board as it is now and rejects (handleBotTurn's
\* catch clears botThinking) or resolves; with the move, handleBotTurn
\* sleeps in easy mode when the search was quicker than the target time,
\* and otherwise goes on.
ContinueBotTurn ==
  /\ ~NoArrived
  /\ \E c \in {d \in 1..Len(game.calls) :
                 /\ game.calls[d].at = "arrived"
                 /\ \A e \in 1..(d - 1) : game.calls[e].at # "arrived"} :
     \E v \in {Validate(board, game.calls[c].resp)} :
       IF v.out.kind = "rejected"
         THEN /\ board' = v.board
              /\ game' = [game EXCEPT !.botThinking = FALSE,
                                      !.calls = RemoveAt(@, c),
                                      !.last = Last("botFailed", NoPiece, game.gen,
                                                   game.calls[c].resp.to, "none")]
         ELSE \E held \in {Call("sleep", NoResp, v.out.piece, game.gen,
                                v.board.obj[v.out.piece], v.out.to)} :
                \/ /\ game.mode.difficulty = "easy"
                   /\ board' = v.board
                   /\ game' = [game EXCEPT
                        !.calls[c] = held,
                        !.last = Last("botSleep", held.piece, held.gen, held.to, "none")]
                \/ GoOn(v.board, game, c, held)
  /\ UNCHANGED <<input, undo, left, out, searchVars, botVars, tables, heap, walkVars>>

\* The easy-mode delay of a handleBotTurn call is over.
WakeBotTurn ==
  /\ NoArrived
  /\ \E c \in 1..Len(game.calls) :
       /\ game.calls[c].at = "sleep"
       /\ GoOn(board, game, c, game.calls[c])
  /\ UNCHANGED <<input, undo, left, out, searchVars, botVars, tables, heap, walkVars>>

GameNext ==
  \/ HandleCellClick
  \/ CompletePromotion
  \/ Reset
  \/ DeliverAnswer
  \/ ContinueBotTurn
  \/ WakeBotTurn

SpecGame == GameInit /\ [][GameNext]_vars

\* The piece object a step of the Bot's move moved, as it was before the
\* step: on the board when it is of the board's generation, and otherwise
\* as the sleeping handleBotTurn call held it.
BotPieceBefore ==
  IF game'.last.gen = game.gen THEN board.obj[game'.last.piece]
  ELSE CHOOSE f \in {game.calls[c].fields : c \in {d \in 1..Len(game.calls) :
                        /\ game.calls[d].at = "sleep"
                        /\ game.calls[d].piece = game'.last.piece
                        /\ game.calls[d].gen = game'.last.gen}} : TRUE

\* Its id on the board after the step.
BotPieceId ==
  IF game'.last.gen = game.gen THEN game'.last.piece ELSE Cardinality(DOMAIN board.obj) + 1

BotKingMoveKeepsType ==
  /\ game # NoGame
  /\ game.last.op = "botMove"
  /\ game.resets = 0
  /\ board.obj[game.last.piece].type = King

\* In the search, a loop's move leaves the mover a Queen if it arrived as a
\* pawn on its far rank and with its type otherwise, before the recursive
\* call generates the reply; no other piece changes type.
SimulatedPawnBecomesQueen ==
  [][(Len(undo') = Len(undo) + 1 /\ undo'[Len(undo')].kind = "search") =>
       LET id == undo'[Len(undo')].applied.piece
           far == IF board.obj[id].color = White THEN 7 ELSE 0
       IN /\ board'.obj[id].type =
               (IF board.obj[id].type = Pawn /\ board'.obj[id].position[2] = far
                  THEN Queen ELSE board.obj[id].type)
          /\ \A i \in DOMAIN board.obj : i # id => board'.obj[i].type = board.obj[i].type]_vars

\* A search move has promoted a pawn.
SimulatedPromotionReached ==
  /\ undo # <<>>
  /\ undo[Len(undo)].kind = "search"
  /\ undo[Len(undo)].promoted
  /\ board.obj[undo[Len(undo)].applied.piece].type = Queen

\* The Game's fields other than the record of the last handler.
SameGame(g, h) == [g EXCEPT !.last = h.last] = h

\* C16: (a) a click that moves a human-controlled pawn onto its far rank
\* sets awaitingPromotion to that pawn and does not end the turn; (b) while
\* awaitingPromotion stays set, currentTurn does not change, and (c) a
\* handleCellClick changes nothing; (d) completePromotion(type) sets the
\* awaited pawn's type, clears awaitingPromotion and ends the turn once, and
\* changes nothing when no promotion is awaited.
C16_HumanPromotionSuspendsTurn ==
  [][/\ (/\ game'.last.op = "handleCellClick"
         /\ board' # board
         /\ isPromotionSquare(board'.obj[game.selectedPiece])
         /\ ~(game.mode.type = "bot" /\ board.obj[game.selectedPiece].color = Black))
        => /\ game'.awaitingPromotion = game.selectedPiece
           /\ board'.obj[game.selectedPiece].type = Pawn
           /\ game'.currentTurn = game.currentTurn
           /\ game'.turns = game.turns
     /\ (game.awaitingPromotion # NoPiece /\ game'.awaitingPromotion = game.awaitingPromotion)
        => game'.currentTurn = game.currentTurn /\ game'.turns = game.turns
     /\ (game.awaitingPromotion # NoPiece /\ game'.last.op = "handleCellClick")
        => board' = board /\ SameGame(game, game')
     /\ (game.awaitingPromotion # NoPiece /\ game'.last.op = "completePromotion")
        => /\ board' = [board EXCEPT !.obj[game.awaitingPromotion].type = game'.last.type]
           /\ game'.awaitingPromotion = NoPiece
           /\ game'.currentTurn = getOpponent(game.currentTurn)
           /\ game'.turns = game.turns + 1
     /\ (game.awaitingPromotion = NoPiece /\ game'.last.op = "completePromotion")
        => board' = board /\ SameGame(game, game')]_vars

\* The player's pawn stood awaiting its promotion, was made a Knight by
\* completePromotion, and the turn has passed.
C16_Witness ==
  /\ game # NoGame
  /\ game.last.op = "completePromotion"
  /\ game.last.piece # NoPiece
  /\ game.last.type = Knight
  /\ board.obj[game.last.piece].type = Knight
  /\ isPromotionSquare([board.obj[game.last.piece] EXCEPT !.type = Pawn])
  /\ game.awaitingPromotion = NoPiece
  /\ game.turns >= 1

\* A click arrived while a promotion was awaited.
ClickWhileAwaitingReached ==
  /\ game # NoGame
  /\ game.last.op = "handleCellClick"
  /\ game.awaitingPromotion # NoPiece
  /\ game.last.to # board.obj[game.awaitingPromotion].position
  /\ board.obj[game.awaitingPromotion].type = Pawn

\* completePromotion was called with nothing awaited.
IdleCompletePromotionReached ==
  /\ game # NoGame
  /\ game.last.op = "completePromotion"
  /\ game.last.piece = NoPiece

\* C19: handleBotTurn applies a move only when its piece is a piece of the
\* current board, of the colour to move, and the move is one of that
\* piece's legal moves on the current board.
C19_OnlyLegalBotMovesApplied ==
  [][game'.last.op = "botMove" =>
       /\ game'.last.gen = game.gen
       /\ game'.last.piece \in Range(board.pieces)
       /\ board.obj[game'.last.piece].color = game.currentTurn
       /\ game'.last.to \in Range(getLegalMoves(board, game'.last.piece))]_vars

\* After a reset and a new move of the player during the easy-mode delay,
\* the move found for the old board has been executed with the old board's
\* piece object: the index holds a piece the list does not, and the turn
\* has passed to White.
C19_StaleMoveApplied ==
  /\ game # NoGame
  /\ game.last.op = "botMove"
  /\ game.last.gen < game.gen
  /\ game.currentTurn = White
  /\ getPieceAt(board, game.last.to) # NoPiece
  /\ getPieceAt(board, game.last.to) \notin Range(board.pieces)

\* The answer to a search dispatched before a reset arrives after it and
\* pickMove rejects it against the board as it is now.
LateAnswerRejectedReached ==
  /\ game # NoGame
  /\ game.last.op = "botFailed"
  /\ game.last.to = Pos(5, 0, 5)
  /\ game.resets > 0
  /\ game.turns >= 2

(***************************************************************************)
(* Boards on a common heap (board.ts).  A piece object has an address (its  *)
(* index in heap.obj) and refers to its position object by address (an      *)
(* index in heap.pos); a Board's list and index hold piece addresses.  Two  *)
(* Boards share an object when they hold the same address.                  *)
(***************************************************************************)
\* movePiece calls followed in one run.
MaxHeapMoves == 2

\* The cells pieces are moved to.
HeapCells == {Pos(3, 3, 3), Pos(3, 6, 3), Pos(3, 7, 3), Pos(0, 0, 1)}

CopyInputs ==
  { <<WK0, BK0, Piece(Rook, White, Pos(3, 3, 3), FALSE), Piece(Pawn, Black, Pos(3, 6, 3), FALSE)>>,
    <<WK0, BK0, Piece(Pawn, White, Pos(3, 6, 3), TRUE)>> }

\* ({ type, color, position: { ...p.position }, hasMoved }) for each object
\* of src, in order: fresh piece objects with fresh position objects.
CopyObjects(w, src) ==
  [w |-> [w EXCEPT
            !.pos = @ \o [i \in 1..Len(src) |-> w.pos[w.obj[src[i]].position]],
            !.obj = @ \o [i \in 1..Len(src) |->
                            [w.obj[src[i]] EXCEPT !.position = Len(w.pos) + i]]],
   addrs |-> [i \in 1..Len(src) |-> Len(w.obj) + i]]

\* pieceMap.set(posKey(piece.position), piece) for each piece in order.
RECURSIVE HeapIndex(_, _, _)
HeapIndex(w, addrs, m) ==
  IF addrs = <<>> THEN m
  ELSE HeapIndex(w, Tail(addrs), MapSet(m, posKey(w.pos[w.obj[Head(addrs)].position]), Head(addrs)))

\* Board.serialize of the Board k: the heap with the data array's objects,
\* and the array.
heapSerialize(w, k) == CopyObjects(w, w.boards[k].pieces)

\* Board.deserialize: the heap with the new Board appended.
heapDeserialize(w, data) ==
  LET c == CopyObjects(w, data)
  IN [c.w EXCEPT !.boards = Append(@, [pieces |-> c.addrs,
                                       pieceMap |-> HeapIndex(c.w, c.addrs, EmptyMap)])]

\* Board.getPieceAt on the Board k.
heapGetPieceAt(w, k, pos) ==
  IF posKey(pos) \in DOMAIN w.boards[k].pieceMap THEN w.boards[k].pieceMap[posKey(pos)]
  ELSE NoPiece

\* Board.removePiece on the Board k.
heapRemovePiece(w, k, a) ==
  [w EXCEPT !.boards[k].pieceMap = MapDelete(@, posKey(w.pos[w.obj[a].position])),
            !.boards[k].pieces = IF IndexOf(@, a) >= 1 THEN RemoveAt(@, IndexOf(@, a)) ELSE @]

\* Board.movePiece on the Board k: the piece gets a new position object.
heapMovePiece(w, k, a, to) ==
  LET captured == heapGetPieceAt(w, k, to)
      w1 == IF captured # NoPiece THEN heapRemovePiece(w, k, captured) ELSE w
  IN [w1 EXCEPT
        !.boards[k].pieceMap = MapSet(MapDelete(@, posKey(w.pos[w.obj[a].position])),
                                      posKey(to), a),
        !.pos = Append(@, to),
        !.obj[a].position = Len(w.pos) + 1,
        !.obj[a].hasMoved = TRUE]

\* A piece object by value.
HeapPiece(w, a) == [w.obj[a] EXCEPT !.position = w.pos[w.obj[a].position]]

\* What a Board shows: its pieces in list order, and what getPieceAt
\* returns on every occupied cell.
Content(w, k) ==
  [pieces |-> [i \in 1..Len(w.boards[k].pieces) |-> HeapPiece(w, w.boards[k].pieces[i])],
   at |-> [q \in DOMAIN w.boards[k].pieceMap |-> HeapPiece(w, w.boards[k].pieceMap[q])]]

\* The piece objects a Board refers to, and their position objects.
PieceObjects(w, k) ==
  Range(w.boards[k].pieces) \cup {w.boards[k].pieceMap[q] : q \in DOMAIN w.boards[k].pieceMap}

PositionObjects(w, k) == {w.obj[a].position : a \in PieceObjects(w, k)}

\* A Board deserialized from data of the caller's.
CopyInit ==
  /\ \E d \in CopyInputs :
       heap = heapDeserialize([obj |-> [i \in 1..Len(d) |-> [d[i] EXCEPT !.position = i]],
                               pos |-> [i \in 1..Len(d) |-> d[i].position],
                               boards |-> <<>>, moves |-> 0, op |-> "new", on |-> 0],
                              [i \in 1..Len(d) |-> i])
  /\ board = EmptyBoard
  /\ input = EmptyBoard
  /\ undo = <<>>
  /\ left = 0
  /\ out = NoOut
  /\ tables = NoTables
  /\ game = NoGame
  /\ WalkIdle
  /\ SearchIdle
  /\ BotIdle

\* board.movePiece(piece, to) on one of the Boards, to another cell.
HeapMovePiece ==
  /\ heap.moves < MaxHeapMoves
  /\ \E k \in 1..Len(heap.boards) : \E a \in Range(heap.boards[k].pieces) :
     \E to \in HeapCells :
       /\ to # heap.pos[heap.obj[a].position]
       /\ heap' = [heapMovePiece(heap, k, a, to) EXCEPT
                     !.moves = @ + 1, !.op = "movePiece", !.on = k]
  /\ UNCHANGED <<boardVars, searchVars, botVars, tables, game, walkVars>>

\* Variant: the copy's list holds the original's piece objects.
RoundTrip_sharesPieces ==
  /\ Len(heap.boards) = 1
  /\ heap' = [heap EXCEPT
       !.boards = Append(@, [pieces |-> heap.boards[1].pieces,
                             pieceMap |-> HeapIndex(heap, heap.boards[1].pieces, EmptyMap)]),
       !.op = "deserialize", !.on = 2]
  /\ UNCHANGED <<boardVars, searchVars, botVars, tables, game, walkVars>>

\* Board.deserialize(board.serialize()) of the first Board.
RoundTrip ==
  /\ Len(heap.boards) = 1
  /\ \E s \in {heapSerialize(heap, 1)} :
       heap' = [heapDeserialize(s.w, s.addrs) EXCEPT !.op = "deserialize", !.on = 2]
  /\ UNCHANGED <<boardVars, searchVars, botVars, tables, game, walkVars>>

CopyNext == HeapMovePiece \/ RoundTrip

SpecCopy == CopyInit /\ [][CopyNext]_vars

\* C17: Board.deserialize(board.serialize()) leaves the original as it was
\* and yields a Board with the same pieces (type, colour, position,
\* hasMoved) whose getPieceAt agrees with the original's on every cell; the
\* two Boards never hold a common piece or position object, and a movePiece
\* on one leaves what the other shows unchanged.
C17_RoundTripCopiesTheBoard ==
  [][/\ heap'.op = "deserialize" /\ heap.op # "deserialize" /\ Len(heap.boards) = 1
        => /\ Content(heap', 1) = Content(heap, 1)
           /\ Content(heap', 2) = Content(heap, 1)
     /\ Len(heap'.boards) = 2
        => /\ PieceObjects(heap', 1) \cap PieceObjects(heap', 2) = {}
           /\ PositionObjects(heap', 1) \cap PositionObjects(heap', 2) = {}
     /\ Len(heap.boards) = 2 /\ heap'.moves = heap.moves + 1
        => Content(heap', 3 - heap'.on) = Content(heap, 3 - heap'.on)]_vars

\* After the round trip a piece of one Board was moved and captured
\* another: the two Boards now show different pieces.
C17_Witness ==
  /\ heap # NoHeap
  /\ Len(heap.boards) = 2
  /\ heap.op = "movePiece"
  /\ Len(heap.boards[heap.on].pieces) < Len(heap.boards[3 - heap.on].pieces)
  /\ Content(heap, 1) # Content(heap, 2)

\* The round trip was made of a Board on which a capture had happened.
RoundTripAfterCaptureReached ==
  /\ heap # NoHeap
  /\ Len(heap.boards) = 2
  /\ heap.op = "deserialize"
  /\ heap.moves >= 1
  /\ Len(heap.boards[2].pieces) < 3
  /\ Content(heap, 1) = Content(heap, 2)

(***************************************************************************)
(* The Bot under the event loop's guarantees: a timer that is set fires    *)
(* unless it is cleared, and the continuation of a settled promise runs.   *)
(* Nothing is assumed of the workers: they may post progress for ever,     *)
(* post nothing, or fail.                                                  *)
(***************************************************************************)
\* The most workers a Bot has (getWorkerCount).
WorkerSlots == 1..2

\* pickMove has something to go on with: it has just been called, or every
\* promise it awaits has settled.
Ready ==
  \/ pc = "idle"
  \/ pc = "parallel" /\ \A w \in DOMAIN workers : workers[w].status # "pending"
  \/ pc \in {"nestedSingle", "fallbackSingle", "single"}
        /\ workers[1].status \notin {"idle", "pending"}

\* pickMove goes on: the steps of PickMove, ResumeParallel and ResumeSingle
\* are the steps taken when Ready that change pc.
GoesOn ==
  Ready /\ pc' \in Awaiting \cup {"resolved", "rejected"}

SpecBotLive ==
  /\ BotInit
  /\ [][BotNext]_vars
  /\ WF_pc(GoesOn)
  /\ \A w \in WorkerSlots : WF_vars(w \in DOMAIN workers /\ Timeout(w))

\* Whenever pickMove is Ready, one of PickMove, ResumeParallel and
\* ResumeSingle can take a step, and that step changes pc: the fairness
\* asked of GoesOn is fairness of these three.
GoesOnIsTheBotsStep ==
  [][/\ Ready => (pc' # pc) /\ (PickMove \/ ResumeParallel \/ ResumeSingle)
     /\ (pc' # pc) => Ready]_vars

Settled == {"result", "progressResult", "error", "errorEvent", "timeout"}

\* C18: every pickMove call settles (resolves or rejects), whatever the
\* workers do: each pending requestWorker promise is settled by its timeout
\* at the latest, and pickMoveParallel and pickMoveSingle go on from there.
C18_PickMoveSettles ==
  (pc \in Awaiting \cup {"idle"}) ~> (pc \in {"resolved", "rejected"})

\* A requestWorker promise that has settled (by a result or error message,
\* an error event or its timeout) is not settled again nor touched by a
\* later message or timer while pickMove waits for the others.
RequestSettlesOnce ==
  [][\A w \in DOMAIN workers :
       (workers[w].status \in Settled /\ pc' = pc) => workers'[w] = workers[w]]_vars

\* pickMoveParallel goes on only when every request has settled, and with
\* the results there are: it leaves the parallel attempt to pickMove's
\* retry only when no worker returned a move, and otherwise settles on a
\* move of a worker that returned or, with depths too far apart, asks for
\* a single search.
ParallelUsesReturnedWorkers ==
  [][(pc = "parallel" /\ pc' # "parallel")
       => /\ \A w \in DOMAIN workers : workers[w].status # "pending"
          /\ IF ResultWorkers(workers) = <<>> THEN pc' = "fallbackSingle"
             ELSE /\ pc' \in {"resolved", "rejected", "nestedSingle"}
                  /\ pc' # "nestedSingle" =>
                       \E k \in 1..Len(ResultWorkers(workers)) :
                         LET v == workers[ResultWorkers(workers)[k]].value
                         IN /\ resp'.fromPos = v.fromPos /\ resp'.to = v.to
                            \/ \E d \in 1..Len(v.depthResults) :
                                 /\ resp'.fromPos = v.depthResults[d].fromPos
                                 /\ resp'.to = v.depthResults[d].to]_vars

\* pickMoveParallel has settled on the move of the worker that returned,
\* the other worker's request having timed out with nothing.
C18_Witness ==
  /\ pc \in {"resolved", "rejected"}
  /\ Len(workers) = 2
  /\ history.singles = 0
  /\ \E w \in DOMAIN workers : workers[w].status = "timeout"
  /\ \E w \in DOMAIN workers : workers[w].status = "result" /\ resp = workers[w].value

(***************************************************************************)
(* pickMoveParallel's deal of the root moves: a hard Bot with two workers  *)
(* on boards with one, two, three and five legal moves.                    *)
(***************************************************************************)
\* The white King in its corner, the black King covering the squares next
\* to it on y = 1: alone (three legal moves), with a Knight covering
\* (1,0,1) (two), with a second Knight covering (1,0,0) too (one), and
\* with a white Pawn (the moves of two pieces).
DealFixtures ==
  { <<WK0, Piece(King, Black, Pos(0, 2, 0), TRUE)>>,
    <<WK0, Piece(King, Black, Pos(0, 2, 0), TRUE),
      Piece(Knight, Black, Pos(1, 2, 2), TRUE)>>,
    <<WK0, Piece(King, Black, Pos(0, 2, 0), TRUE),
      Piece(Knight, Black, Pos(1, 2, 2), TRUE),
      Piece(Knight, Black, Pos(3, 1, 0), TRUE)>>,
    <<WK0, Piece(King, Black, Pos(0, 2, 0), TRUE),
      Piece(Knight, Black, Pos(1, 2, 2), TRUE),
      Piece(Pawn, White, Pos(4, 1, 4), TRUE)>> }

\* The workers' deepening loops are followed up to this depth here.
MaxDealDepth == 1

DealInit ==
  /\ \E pieces \in DealFixtures : board = deserialize(pieces)
  /\ bot = [color |-> White, difficulty |-> "hard",
            workerCount |-> getWorkerCount("hard", 4),
            detailed |-> FALSE, followed |-> MaxDealDepth]
  /\ input = board
  /\ undo = <<>>
  /\ left = 0
  /\ out = NoOut
  /\ pc = "idle"
  /\ workers = [w \in 1..bot.workerCount |-> IdleWorker]
  /\ compare = NoCompare
  /\ resp = NoResp
  /\ history = NoHistory
  /\ SearchIdle
  /\ RestIdle

SpecBotDeal == DealInit /\ [][SpreadNext]_vars

\* The legal moves of the colour on b, as (from, to) pairs.
LegalPairs(b, color) ==
  UNION {{[fromPos |-> b.obj[id].position, to |-> t] : t \in LegalSet(b, id)} :
           id \in {b.pieces[i] : i \in 1..Len(b.pieces)} \cap
                  {id \in DOMAIN b.obj : b.obj[id].color = color}}

\* The requests' root-move lists, one per worker (empty where none was sent).
Dealt(ws) ==
  [w \in DOMAIN ws |-> IF ws[w].status = "idle" THEN <<>> ELSE ws[w].rootMoves]

\* In how many places of the buckets the move stands.
Places(buckets, m) ==
  Cardinality(UNION {{<<w, k>> : k \in {j \in 1..Len(buckets[w]) : buckets[w][j] = m}} :
                       w \in DOMAIN buckets})

\* C21: pickMoveParallel deals the ordered root moves round-robin: the move
\* at index i (from 0) is entry i div N of the list sent to worker i mod N;
\* every legal move of the Bot's colour stands in exactly one place of the
\* lists and nothing else does; no two lists differ in length by more than
\* one; and a request goes to exactly the workers whose list is not empty.
C21_RootMovesDealtRoundRobin ==
  [][(pc = "idle" /\ pc' = "parallel") =>
       \E rm \in {buildRootMovesRun(board, bot.color).rootMoves} :
       \E n \in {Len(workers)} :
       \E bk \in {Dealt(workers')} :
       \E legal \in {LegalPairs(board, bot.color)} :
         /\ \A i \in 0..(Len(rm) - 1) :
              /\ (i \div n) + 1 <= Len(bk[(i % n) + 1])
              /\ bk[(i % n) + 1][(i \div n) + 1] = rm[i + 1]
         /\ \A m \in legal : Places(bk, m) = 1
         /\ \A w \in DOMAIN bk : \A k \in 1..Len(bk[w]) : bk[w][k] \in legal
         /\ \A v, w \in DOMAIN bk : Len(bk[v]) - Len(bk[w]) <= 1
         /\ \A w \in DOMAIN workers :
              /\ workers'[w].status \in {"idle", "pending"}
              /\ workers'[w].status = "pending" <=>
                   \E i \in 0..(Len(rm) - 1) : i % n = w - 1
              /\ workers'[w].status = "pending" =>
                   workers'[w].restricted /\ workers'[w].rootMoves # <<>>
    ]_vars

\* Seven root moves were dealt: four to the first worker, three to the
\* second, both requested.
C21_Witness ==
  /\ pc = "parallel"
  /\ \A w \in DOMAIN workers : workers[w].status = "pending"
  /\ Len(workers[1].rootMoves) = 4
  /\ Len(workers[2].rootMoves) = 3
  /\ Cardinality(LegalPairs(input, bot.color)) = 7

\* With one root move the second worker got no request, and pickMove
\* settled on the first worker's result.
OneRootMoveOneRequestReached ==
  /\ pc = "resolved"
  /\ history.singles = 0
  /\ workers[2] = IdleWorker
  /\ Len(workers[1].rootMoves) = 1
  /\ resp = workers[1].value

(***************************************************************************)
(* The root-move subset of a request (resolveRootMoves, iterativeSearch,   *)
(* searchAtDepth), on the requests of SpecSearch.                          *)
(***************************************************************************)
\* The move is one of the subset's entries.
InSubset(rootMoves, m) ==
  \E k \in 1..Len(rootMoves) :
    samePos(rootMoves[k].fromPos, m.fromPos) /\ samePos(rootMoves[k].to, m.to)

\* The subset's entries, as (from, to) pairs.
SubsetPairs(rootMoves) ==
  {[fromPos |-> rootMoves[k].fromPos, to |-> rootMoves[k].to] : k \in 1..Len(rootMoves)}

\* The move is a legal move of the colour on b: a piece of the colour
\* stands on its origin and getLegalMoves of that piece holds its target.
IsLegalPair(b, color, m) ==
  \E id \in {getPieceAt(b, m.fromPos)} :
    /\ id # NoPiece
    /\ b.obj[id].color = color
    /\ m.to \in LegalSet(b, id)

\* The candidates of the running pass, as (from, to) pairs.
PassPairs ==
  {[fromPos |-> board.obj[moves[i].piece].position, to |-> moves[i].to] :
     i \in 1..Len(moves)}

\* Every move the worker has scored, kept or returned so far.
HandledPairs ==
  {[fromPos |-> scored[k].fromPos, to |-> scored[k].to] : k \in 1..Len(scored)}
  \cup {[fromPos |-> bestResult[k].fromPos, to |-> bestResult[k].to] :
          k \in 1..Len(bestResult)}
  \cup {[fromPos |-> depthResults[k].fromPos, to |-> depthResults[k].to] :
          k \in 1..Len(depthResults)}
  \cup (IF out # NoOut /\ out.kind = "result"
          THEN {[fromPos |-> out.best.fromPos, to |-> out.best.to]}
               \cup {[fromPos |-> out.depthResults[k].fromPos,
                      to |-> out.depthResults[k].to] : k \in 1..Len(out.depthResults)}
          ELSE {})

\* C22: with a non-empty rootMoves subset the worker's root moves are the
\* subset's entries that are legal on the received board, and every move it
\* scores, records or returns is one of them; a subset without a legal
\* entry ends in the error 'Worker received empty root move subset' with
\* nothing scored; without a subset (absent or empty) the root moves are
\* all the legal moves.
C22_WorkerKeepsToItsSubset ==
  [][ /\ HandledPairs' \subseteq PassPairs'
      /\ (phase = "idle" \/ moves' # moves) =>
           IF Len(request.rootMoves) > 0
             THEN \E wanted \in {{m \in SubsetPairs(request.rootMoves) :
                                     IsLegalPair(input, request.color, m)}} :
                    IF wanted = {}
                      THEN /\ phase' = "threw"
                           /\ out' = SearchError("Worker received empty root move subset")
                           /\ moves' = <<>>
                      ELSE /\ PassPairs' = wanted
                           /\ phase' = "searching"
             ELSE \E legal \in {LegalPairs(input, request.color)} :
                    IF legal = {}
                      THEN /\ phase' = "threw"
                           /\ out' = SearchError("Bot has no legal moves")
                           /\ moves' = <<>>
                      ELSE /\ PassPairs' = legal
                           /\ phase' = "searching"
    ]_vars

\* A search on a subset naming a legal and an illegal move returned the
\* legal one, having scored nothing else.
C22_Witness ==
  /\ phase = "returned"
  /\ \E m \in SubsetPairs(request.rootMoves) : ~IsLegalPair(input, request.color, m)
  /\ out.kind = "result"
  /\ InSubset(request.rootMoves, out.best)
  /\ IsLegalPair(input, request.color,
                 [fromPos |-> out.best.fromPos, to |-> out.best.to])
  /\ Len(bestResult) = 1

\* A subset naming only an illegal move ended in the error.
IllegalSubsetRefusedReached ==
  /\ phase = "threw"
  /\ Len(request.rootMoves) = 1
  /\ out = SearchError("Worker received empty root move subset")

\* Without a subset every legal move was scored.
UnrestrictedSearchedAllReached ==
  /\ phase = "returned"
  /\ Len(request.rootMoves) = 0
  /\ {[fromPos |-> bestResult[k].fromPos, to |-> bestResult[k].to] :
        k \in 1..Len(bestResult)} = LegalPairs(input, request.color)
  /\ Len(bestResult) >= 2

(***************************************************************************)
(* isKingInCheck against getValidMoves: check tests on the legality        *)
(* inputs, on boards with the Kings side by side, and on boards where a    *)
(* colour has no King.                                                     *)
(***************************************************************************)
\* The Kings side by side; a black Knight a knight's move from the white
\* King; a board without a white King; one without any.
CheckFixtures ==
  { <<WK0, Piece(King, Black, Pos(1, 1, 1), TRUE)>>,
    <<WK0, BK0, Piece(Knight, Black, Pos(2, 1, 0), TRUE)>>,
    <<BK0, Piece(Rook, White, Pos(3, 3, 3), TRUE)>>,
    <<Piece(Rook, White, Pos(3, 3, 3), TRUE), Piece(Rook, Black, Pos(3, 3, 5), TRUE)>> }

CheckInputs ==
  LegalInputs \cup UNION {{Append(f, x) : x \in FreeFor(f)} : f \in CheckFixtures}

CheckInit ==
  /\ board \in {deserialize(d) : d \in CheckInputs}
  /\ input = board
  /\ undo = <<>>
  /\ left = 1
  /\ out = NoOut
  /\ SearchIdle
  /\ BotIdle
  /\ RestIdle

\* A caller asks whether the colour is in check.
CallIsKingInCheck(c) ==
  /\ left > 0
  /\ out' = [kind |-> "check", color |-> c, inCheck |-> isKingInCheck(board, c)]
  /\ left' = left - 1
  /\ UNCHANGED <<board, input, undo, searchVars, botVars, restVars>>

CheckNext == \E c \in PieceColor : CallIsKingInCheck(c)

SpecCheck == CheckInit /\ [][CheckNext]_vars

\* The pieces of the other colour that have the cell among the destinations
\* getValidMoves gives them.
Reaching(b, color, cell) ==
  {id \in Range(b.pieces) :
     b.obj[id].color # color /\ cell \in Range(getValidMoves(b, id))}

\* C23: for a colour whose King is on the board, isKingInCheck is true iff
\* some piece of the other colour, of whatever type, has the King's square
\* among its pseudo-legal destinations (getValidMoves); for a colour without
\* a King it is false.
C23_CheckIffKingSquareIsADestination ==
  out.kind = "check" =>
    IF findKing(input, out.color) = NoPiece THEN ~out.inCheck
    ELSE out.inCheck <=>
           Reaching(input, out.color, input.obj[findKing(input, out.color)].position) # {}

\* A pawn gives check: the King stands on one of its capture cells, and no
\* other piece reaches the King.
C23_Witness ==
  /\ out.kind = "check"
  /\ out.inCheck
  /\ \E k \in {findKing(input, out.color)} :
       /\ k # NoPiece
       /\ \A id \in Reaching(input, out.color, input.obj[k].position) :
            input.obj[id].type = Pawn

\* The King stands straight ahead of an enemy pawn and is not in check.
KingAheadOfPawnReached ==
  /\ out.kind = "check"
  /\ ~out.inCheck
  /\ \E k \in {findKing(input, out.color)} : \E id \in Range(input.pieces) :
       /\ k # NoPiece
       /\ input.obj[id].type = Pawn
       /\ input.obj[id].color # out.color
       /\ input.obj[k].position
            = PAdd(input.obj[id].position, <<0, FwdDir(input.obj[id].color), 0>>)

\* Check by each type of piece.
CheckByEveryTypeReached(t) ==
  /\ out.kind = "check"
  /\ out.inCheck
  /\ \E id \in Range(input.pieces) : input.obj[id].type = t /\ input.obj[id].color # out.color
       /\ id \in Reaching(input, out.color, input.obj[findKing(input, out.color)].position)

CheckByKingReached == CheckByEveryTypeReached(King)
CheckByQueenReached == CheckByEveryTypeReached(Queen)
CheckByRookReached == CheckByEveryTypeReached(Rook)
CheckByBishopReached == CheckByEveryTypeReached(Bishop)
CheckByKnightReached == CheckByEveryTypeReached(Knight)

\* The test on a colour without a King said no.
NoKingNoCheckReached ==
  /\ out.kind = "check"
  /\ findKing(input, out.color) = NoPiece
  /\ ~out.inCheck
  /\ Len(input.pieces) > 0

(***************************************************************************)
(* getValidMoves of sliding pieces and of pawns: one piece on the board    *)
(* with up to MaxBlockers pieces standing around it.                       *)
(***************************************************************************)
\* Pieces placed around the piece whose moves are asked for.
MaxBlockers == 2

\* Where the sliding piece stands: inside the cube, in a corner, on a face.
SlideCells == <<Pos(3, 3, 3), Pos(0, 0, 0), Pos(7, 4, 0)>>

\* Where the others stand, from the sliding piece: on a Rook's line at one,
\* two and three steps, on a Bishop's lines, on the Rook's xz diagonal, and
\* off every line.
SlideOffsets ==
  << <<0, 0, 1>>, <<0, 0, 2>>, <<0, 0, 3>>, <<1, 1, 0>>, <<2, 2, 0>>, <<1, 1, 1>>,
     <<-1, 0, -1>>, <<0, -2, -2>>, <<1, 2, 0>>, <<-3, -3, -3>> >>

\* Where the pawn stands: inside the cube, on its starting rank at the
\* cube's edge, one and no rank from the far end (for White).
PawnCells == <<Pos(3, 3, 3), Pos(0, 1, 0), Pos(4, 6, 7), Pos(4, 7, 4)>>

\* Where the others stand, from a pawn that moves along f = 1 (for Black
\* the y offset is mirrored): one and two steps ahead, one and two layers
\* up, one layer down, on the staircase at one and two steps, on three of
\* the capture cells, behind and beside it.
PawnOffsets ==
  << <<0, 1, 0>>, <<0, 2, 0>>, <<0, 0, 1>>, <<0, 0, 2>>, <<0, 0, -1>>, <<0, 1, 1>>,
     <<0, 2, 2>>, <<1, 1, 0>>, <<-1, 1, 1>>, <<1, 1, -1>>, <<0, -1, 0>>, <<1, 0, 0>> >>

\* The pieces on the chosen offsets (those inside the cube), as Pawns that
\* have moved, of the colours given.
Blockers(at, offsets, f, chosen, colours) ==
  Flatten([i \in 1..Len(offsets) |->
    LET cell == PAdd(at, <<offsets[i][1], f * offsets[i][2], offsets[i][3]>>)
    IN IF i \in chosen /\ isInBounds(cell)
         THEN <<Piece(Pawn, colours[i], cell, TRUE)>> ELSE <<>>])

Choices(offsets) ==
  UNION {{[chosen |-> S, colours |-> c] : c \in [S -> PieceColor]} :
           S \in {T \in SUBSET (1..Len(offsets)) : Cardinality(T) <= MaxBlockers}}

SlideInputs ==
  {<<Piece(t, c, SlideCells[k], TRUE)>> \o Blockers(SlideCells[k], SlideOffsets, 1, ch.chosen, ch.colours) :
     t \in {Rook, Bishop, Queen}, c \in PieceColor, k \in 1..Len(SlideCells),
     ch \in Choices(SlideOffsets)}

PawnInputs ==
  {<<Piece(Pawn, c, PawnCells[k], hm)>>
     \o Blockers(PawnCells[k], PawnOffsets, FwdDir(c), ch.chosen, ch.colours) :
     c \in PieceColor, k \in 1..Len(PawnCells), hm \in BOOLEAN, ch \in Choices(PawnOffsets)}

ValidInit ==
  /\ board \in {deserialize(d) : d \in SlideInputs \cup PawnInputs}
  /\ input = board
  /\ undo = <<>>
  /\ left = 1
  /\ out = NoOut
  /\ SearchIdle
  /\ BotIdle
  /\ RestIdle

\* A caller asks for the pseudo-legal destinations of the first piece.
CallGetValidMoves ==
  /\ left > 0
  /\ out' = [kind |-> "valid", piece |-> board.pieces[1],
             moves |-> getValidMoves(board, board.pieces[1])]
  /\ left' = left - 1
  /\ UNCHANGED <<board, input, undo, searchVars, botVars, restVars>>

ValidNext == CallGetValidMoves

SpecValid == ValidInit /\ [][ValidNext]_vars

\* The directions of a sliding piece.
DirsOf(t) ==
  CASE t = Rook -> ROOK_DIRS [] t = Bishop -> BISHOP_DIRS [] t = Queen -> QUEEN_DIRS

\* The cell k steps from p along d.
Along(p, d, k) == <<p[1] + k * d[1], p[2] + k * d[2], p[3] + k * d[3]>>

\* The cells of the direction before the first occupied cell or the cube's
\* end, and the first occupied cell when an enemy stands on it.
OpenCells(b, id, d) ==
  {Along(b.obj[id].position, d, k) : k \in
     {k \in 1..(BoardSize - 1) :
        /\ isInBounds(Along(b.obj[id].position, d, k))
        /\ \A j \in 1..(k - 1) : getPieceAt(b, Along(b.obj[id].position, d, j)) = NoPiece
        /\ \/ getPieceAt(b, Along(b.obj[id].position, d, k)) = NoPiece
           \/ b.obj[getPieceAt(b, Along(b.obj[id].position, d, k))].color # b.obj[id].color}}

\* C24: the pseudo-legal destinations of a Rook, Bishop or Queen are, along
\* each of its directions, the cells inside the cube before the first
\* occupied cell, and that cell iff an enemy stands on it; none lies beyond
\* an occupied cell, on a piece of its own colour, or outside the cube.
C24_SlidersStopAtFirstOccupant ==
  (out.kind = "valid" /\ input.obj[out.piece].type \in {Rook, Bishop, Queen}) =>
    /\ Range(out.moves)
         = UNION {OpenCells(input, out.piece, DirsOf(input.obj[out.piece].type)[i]) :
                    i \in 1..Len(DirsOf(input.obj[out.piece].type))}
    /\ \A t \in Range(out.moves) :
         /\ isInBounds(t)
         /\ getPieceAt(input, t) # NoPiece =>
              input.obj[getPieceAt(input, t)].color # input.obj[out.piece].color

\* A Rook inside the cube with an own piece next to it on one line and an
\* enemy two steps away on another: the enemy's cell is a destination, the
\* own piece's cell and the cells behind both are not.
C24_Witness ==
  /\ out.kind = "valid"
  /\ input.obj[out.piece].type = Rook
  /\ input.obj[out.piece].position = Pos(3, 3, 3)
  /\ getPieceAt(input, Pos(3, 3, 4)) # NoPiece
  /\ Pos(3, 3, 4) \notin Range(out.moves)
  /\ Pos(3, 3, 5) \notin Range(out.moves)
  /\ getPieceAt(input, Pos(3, 1, 1)) # NoPiece
  /\ Pos(3, 1, 1) \in Range(out.moves)
  /\ Pos(3, 2, 2) \in Range(out.moves)
  /\ Pos(3, 0, 0) \notin Range(out.moves)

\* A Bishop's capture on a space diagonal.
BishopCaptureReached ==
  /\ out.kind = "valid"
  /\ input.obj[out.piece].type = Bishop
  /\ getPieceAt(input, Pos(4, 4, 4)) # NoPiece
  /\ Pos(4, 4, 4) \in Range(out.moves)
  /\ Pos(5, 5, 5) \notin Range(out.moves)

\* The one-step offsets of a pawn's non-capturing moves: forward, layer up,
\* layer down, forward and a layer up or down.
PawnSteps(f) == {<<0, f, 0>>, <<0, 0, 1>>, <<0, 0, -1>>, <<0, f, 1>>, <<0, f, -1>>}

Delta(p, t) == <<t[1] - p[1], t[2] - p[2], t[3] - p[3]>>

\* C25: of a pawn's pseudo-legal destinations, one that is not a capture is
\* an empty cell one step along a non-capturing direction, or two steps
\* along it when the pawn has not moved and the cell between is empty too;
\* one that is a capture is one of the six forward-diagonal cells (x + 1 or
\* x - 1, one rank forward, layer -1, 0 or +1) with an enemy piece on it;
\* and no destination lies behind the pawn's rank.
C25_PawnMovesAndCaptures ==
  (out.kind = "valid" /\ input.obj[out.piece].type = Pawn) =>
    \A t \in Range(out.moves) :
      LET pawn == input.obj[out.piece]
          f == FwdDir(pawn.color)
          d == Delta(pawn.position, t)
          occ == getPieceAt(input, t)
      IN /\ isInBounds(t)
         /\ f * d[2] >= 0
         /\ IF occ = NoPiece
              THEN \/ d \in PawnSteps(f)
                   \/ \E s \in PawnSteps(f) :
                        /\ d = <<2 * s[1], 2 * s[2], 2 * s[3]>>
                        /\ ~pawn.hasMoved
                        /\ getPieceAt(input, PAdd(pawn.position, s)) = NoPiece
              ELSE /\ input.obj[occ].color # pawn.color
                   /\ d[1] \in {-1, 1}
                   /\ d[2] = f
                   /\ d[3] \in {-1, 0, 1}

\* A pawn that has not moved, with an enemy on a capture cell and a piece
\* two layers up: it may capture, go two steps forward and one layer up,
\* not two layers up.
C25_Witness ==
  /\ out.kind = "valid"
  /\ \E pawn \in {input.obj[out.piece]} : \E f \in {FwdDir(input.obj[out.piece].color)} :
       /\ pawn.type = Pawn
       /\ ~pawn.hasMoved
       /\ PAdd(pawn.position, <<0, 2 * f, 0>>) \in Range(out.moves)
       /\ getPieceAt(input, PAdd(pawn.position, <<0, 0, 2>>)) # NoPiece
       /\ PAdd(pawn.position, <<0, 0, 1>>) \in Range(out.moves)
       /\ PAdd(pawn.position, <<0, 0, 2>>) \notin Range(out.moves)
       /\ \E t \in Range(out.moves) : getPieceAt(input, t) # NoPiece

\* A pawn that has moved, the two cells ahead empty: one step only.
MovedPawnOneStepReached ==
  /\ out.kind = "valid"
  /\ \E pawn \in {input.obj[out.piece]} : \E f \in {FwdDir(input.obj[out.piece].color)} :
       /\ pawn.type = Pawn
       /\ pawn.hasMoved
       /\ PAdd(pawn.position, <<0, f, 0>>) \in Range(out.moves)
       /\ isInBounds(PAdd(pawn.position, <<0, 2 * f, 0>>))
       /\ getPieceAt(input, PAdd(pawn.position, <<0, 2 * f, 0>>)) = NoPiece
       /\ PAdd(pawn.position, <<0, 2 * f, 0>>) \notin Range(out.moves)

\* A pawn that has not moved with a piece straight ahead: neither step.
BlockedPawnNoJumpReached ==
  /\ out.kind = "valid"
  /\ \E pawn \in {input.obj[out.piece]} : \E f \in {FwdDir(input.obj[out.piece].color)} :
       /\ pawn.type = Pawn
       /\ ~pawn.hasMoved
       /\ getPieceAt(input, PAdd(pawn.position, <<0, f, 0>>)) # NoPiece
       /\ isInBounds(PAdd(pawn.position, <<0, 2 * f, 0>>))
       /\ getPieceAt(input, PAdd(pawn.position, <<0, 2 * f, 0>>)) = NoPiece
       /\ PAdd(pawn.position, <<0, f, 0>>) \notin Range(out.moves)
       /\ PAdd(pawn.position, <<0, 2 * f, 0>>) \notin Range(out.moves)

\* An own piece on a capture cell and an empty capture cell: neither is a
\* destination.
NoCaptureOfOwnOrEmptyReached ==
  /\ out.kind = "valid"
  /\ \E pawn \in {input.obj[out.piece]} : \E f \in {FwdDir(input.obj[out.piece].color)} :
       /\ pawn.type = Pawn
       /\ getPieceAt(input, PAdd(pawn.position, <<1, f, 0>>)) # NoPiece
       /\ PAdd(pawn.position, <<1, f, 0>>) \notin Range(out.moves)
       /\ isInBounds(PAdd(pawn.position, <<-1, f, 0>>))
       /\ PAdd(pawn.position, <<-1, f, 0>>) \notin Range(out.moves)

(***************************************************************************)
(* The depth, ply and extension budgets down the calls of one root search  *)
(* (searchAtDepth, negamax, quiescence in botWorker.ts).  The search is    *)
(* followed along a chain of calls; what a call finds on the board (check, *)
(* captures, the stand-pat score against beta, a transposition entry) is   *)
(* open.                                                                   *)
(***************************************************************************)
QUIESCENCE_MAX_PLY == 7

CHECK_EXTENSION_BUDGET == 2

RECAPTURE_EXTENSION_BUDGET == 1

NULL_MOVE_REDUCTION == 2

\* A call: fn is "root" (searchAtDepth), "negamax" or "quiescence".
\*   inCheck            isKingInCheck(board, toMove) at the call
\*   standPatBelowBeta  (quiescence) evaluate(...) < beta
\*   forcing            (quiescence) in check: an evasion exists; otherwise:
\*                      quiescenceMoves holds a move the loop does not skip
\*   fromHorizon        (quiescence) called by negamax at depth 0
\*   result             "none" while the call goes on; else the return taken
\*                      before any move was searched
\*   checkExts, recaptureExts   extensions granted from the root to here
Node(fn, difficulty, nominal, d, ply, cb, rb, lastCapture, inCheck, below, forcing, fromHorizon, ce, re) ==
  [fn |-> fn, difficulty |-> difficulty, nominal |-> nominal, depth |-> d, ply |-> ply,
   checkExtBudget |-> cb, recaptureExtBudget |-> rb, lastCapture |-> lastCapture,
   inCheck |-> inCheck, standPatBelowBeta |-> below, forcing |-> forcing,
   fromHorizon |-> fromHorizon, result |-> "none",
   checkExts |-> ce, recaptureExts |-> re]

\* searchAtDepth(board, color, depth, ...) for a depth of the deepening loop.
DepthInit ==
  /\ \E difficulty \in Difficulty : \E d \in 1..MAX_DEPTH[difficulty] :
       call = Node("root", difficulty, d, d, 0, CHECK_EXTENSION_BUDGET,
                   RECAPTURE_EXTENSION_BUDGET, FALSE, FALSE, FALSE, FALSE, FALSE, 0, 0)
  /\ count = NoCount
  /\ wire = NoWire
  /\ board = EmptyBoard
  /\ input = board
  /\ undo = <<>>
  /\ left = 0
  /\ out = NoOut
  /\ SearchIdle
  /\ BotIdle
  /\ tables = NoTables
  /\ game = NoGame
  /\ heap = NoHeap

\* searchAtDepth's loop: negamax(board, depth - 1, ..., 1) below a root move,
\* with the default budgets and no lastCaptureSquare.
CallRoot ==
  /\ call.fn = "root"
  /\ \E givesCheck \in BOOLEAN :
       call' = Node("negamax", call.difficulty, call.nominal, call.depth - 1, 1,
                    CHECK_EXTENSION_BUDGET, RECAPTURE_EXTENSION_BUDGET, FALSE,
                    givesCheck, FALSE, FALSE, FALSE, 0, 0)
  /\ UNCHANGED <<boardVars, searchVars, botVars, tables, game, heap, count, wire>>

\* negamax returns without searching a move: on a transposition entry deep
\* enough, or with no legal move.
NegamaxReturn ==
  /\ call.fn = "negamax"
  /\ call.result = "none"
  /\ \E r \in {"transposition"} \cup (IF call.depth > 0 THEN {"noMoves"} ELSE {}) :
       call' = [call EXCEPT !.result = r]
  /\ UNCHANGED <<boardVars, searchVars, botVars, tables, game, heap, count, wire>>

\* if (depth === 0) return quiescence(board, alpha, beta, toMove, botColor, ply)
EnterQuiescence ==
  /\ call.fn = "negamax"
  /\ call.result = "none"
  /\ call.depth = 0
  /\ \E below, forcing \in BOOLEAN :
       call' = Node("quiescence", call.difficulty, call.nominal, 0, call.ply,
                    call.checkExtBudget, call.recaptureExtBudget, FALSE,
                    call.inCheck, below, forcing, TRUE,
                    call.checkExts, call.recaptureExts)
  /\ UNCHANGED <<boardVars, searchVars, botVars, tables, game, heap, count, wire>>

\* The null-move search: not in check, depth >= 3, non-pawn material and a
\* static evaluation of at least beta.
NullMove ==
  /\ call.fn = "negamax"
  /\ call.result = "none"
  /\ call.depth # 0
  /\ ~call.inCheck
  /\ call.depth >= 3
  /\ call' = Node("negamax", call.difficulty, call.nominal,
                  call.depth - 1 - NULL_MOVE_REDUCTION, call.ply + 1,
                  call.checkExtBudget, call.recaptureExtBudget, FALSE,
                  FALSE, FALSE, FALSE, FALSE, call.checkExts, call.recaptureExts)
  /\ UNCHANGED <<boardVars, searchVars, botVars, tables, game, heap, count, wire>>

\* Variant: an extension leaves the budgets as they are.
ChildBudgets_unspent(cb, rb, canCheckExtend, canRecaptureExtend) ==
  [check |-> cb, recapture |-> rb]

\* checkExtBudget - (canCheckExtend ? 1 : 0) and
\* recaptureExtBudget - (canRecaptureExtend ? 1 : 0)
ChildBudgets(cb, rb, canCheckExtend, canRecaptureExtend) ==
  [check |-> cb - (IF canCheckExtend THEN 1 ELSE 0),
   recapture |-> rb - (IF canRecaptureExtend THEN 1 ELSE 0)]

\* The depths of the calls negamax makes below the move at moveIndex.
ChildDepths(c, moveIndex, givesCheck, captured, isRecapture, promotes) ==
  LET canCheckExtend == givesCheck /\ c.checkExtBudget > 0
      canRecaptureExtend == isRecapture /\ c.recaptureExtBudget > 0
      extension == IF canCheckExtend \/ canRecaptureExtend THEN 1 ELSE 0
      nextDepth == c.depth - 1 + extension
      isQuiet == ~captured /\ ~promotes /\ ~givesCheck
      canReduce == nextDepth >= 3 /\ moveIndex >= 3 /\ isQuiet /\ ~c.inCheck
      reduction == IF canReduce THEN (IF moveIndex >= 8 THEN 2 ELSE 1) ELSE 0
      reducedDepth == Max(0, nextDepth - reduction)
  IN [canCheckExtend |-> canCheckExtend, canRecaptureExtend |-> canRecaptureExtend,
      nextDepth |-> nextDepth, reducedDepth |-> reducedDepth]

\* The move indexes told apart: the first move, one before the reduction
\* threshold, one from 3 on, one from 8 on.
MoveIndexes == {0, 1, 3, 8}

\* One call of negamax's move loop: the first move at nextDepth, a later
\* one at reducedDepth and, when that beat alpha, again at nextDepth.
SearchChild ==
  /\ call.fn = "negamax"
  /\ call.result = "none"
  /\ call.depth # 0
  /\ \E moveIndex \in MoveIndexes :
     \E givesCheck, captured, sameSquare, promotes, again \in BOOLEAN :
     \E cd \in {ChildDepths(call, moveIndex, givesCheck, captured,
                            captured /\ call.lastCapture /\ sameSquare, promotes)} :
     \E budgets \in {ChildBudgets(call.checkExtBudget, call.recaptureExtBudget,
                                  cd.canCheckExtend, cd.canRecaptureExtend)} :
       /\ again => moveIndex # 0
       /\ sameSquare => captured /\ call.lastCapture
       /\ call' = Node("negamax", call.difficulty, call.nominal,
                       IF moveIndex = 0 \/ again THEN cd.nextDepth ELSE cd.reducedDepth,
                       call.ply + 1, budgets.check, budgets.recapture, captured,
                       givesCheck, FALSE, FALSE, FALSE,
                       call.checkExts + (IF cd.canCheckExtend THEN 1 ELSE 0),
                       call.recaptureExts + (IF cd.canRecaptureExtend THEN 1 ELSE 0))
  /\ UNCHANGED <<boardVars, searchVars, botVars, tables, game, heap, count, wire>>

\* Variant: quiescence has no ply test before its move loops.
QuiescenceGoesOn_noPlyLimit(c) ==
  IF c.inCheck THEN c.forcing ELSE c.standPatBelowBeta /\ c.forcing

\* Whether quiescence reaches one of its two move loops with a move to
\* search: in check with an evasion, or not in check with the stand-pat
\* score below beta and a tactical move, and in both cases ply below
\* QUIESCENCE_MAX_PLY.
QuiescenceGoesOn(c) ==
  IF c.inCheck THEN c.forcing /\ ~(c.ply >= QUIESCENCE_MAX_PLY)
  ELSE c.standPatBelowBeta /\ ~(c.ply >= QUIESCENCE_MAX_PLY) /\ c.forcing

\* -quiescence(board, -beta, -alpha, getOpponent(toMove), botColor, ply + 1)
\* below an evasion or a tactical move.
QuiescenceChild ==
  /\ call.fn = "quiescence"
  /\ call.result = "none"
  /\ QuiescenceGoesOn(call)
  /\ \E givesCheck, below, forcing \in BOOLEAN :
       call' = Node("quiescence", call.difficulty, call.nominal, 0, call.ply + 1,
                    call.checkExtBudget, call.recaptureExtBudget, FALSE,
                    givesCheck, below, forcing, FALSE,
                    call.checkExts, call.recaptureExts)
  /\ UNCHANGED <<boardVars, searchVars, botVars, tables, game, heap, count, wire>>

\* quiescence returns without having searched a move: mate (in check, no
\* evasion), the evaluation at the ply limit (in check), the stand-pat
\* score (at least beta, or at the ply limit), or alpha (no tactical move).
QuiescenceReturn ==
  /\ call.fn = "quiescence"
  /\ call.result = "none"
  /\ ~QuiescenceGoesOn(call)
  /\ call' = [call EXCEPT !.result =
                IF call.inCheck
                  THEN (IF ~call.forcing THEN "mate" ELSE "evaluateAtPlyLimit")
                  ELSE IF ~call.standPatBelowBeta THEN "standPat"
                  ELSE IF call.ply >= QUIESCENCE_MAX_PLY THEN "standPatAtPlyLimit"
                  ELSE "alpha"]
  /\ UNCHANGED <<boardVars, searchVars, botVars, tables, game, heap, count, wire>>

DepthNext ==
  \/ CallRoot
  \/ NegamaxReturn
  \/ EnterQuiescence
  \/ NullMove
  \/ SearchChild
  \/ QuiescenceChild
  \/ QuiescenceReturn

SpecDepth == DepthInit /\ [][DepthNext]_vars

\* A rank that bounds how many calls can follow below a call.
Rank(c) ==
  IF c.result # "none" THEN 0
  ELSE IF c.fn = "quiescence"
    THEN 1 + (IF c.ply >= QUIESCENCE_MAX_PLY THEN 0 ELSE QUIESCENCE_MAX_PLY - c.ply)
  ELSE IF c.fn = "negamax"
    THEN 2 + QUIESCENCE_MAX_PLY + c.depth + c.checkExtBudget + c.recaptureExtBudget
  ELSE 3 + QUIESCENCE_MAX_PLY + c.depth + c.checkExtBudget + c.recaptureExtBudget

\* C26: without an abort a root search of nominal depth D terminates: every
\* call made lowers a rank that is never negative; negamax is never called
\* with a negative depth; at most 2 check extensions and 1 recapture
\* extension are granted from the root to any call; quiescence calls itself
\* only from a ply below 7; and no call has a ply above max(D + 3, 7).
C26_SearchDepthIsBounded ==
  [][ /\ Rank(call') < Rank(call)
      /\ Rank(call') >= 0
      /\ call'.depth >= 0
      /\ call'.checkExts <= 2
      /\ call'.recaptureExts <= 1
      /\ (call.fn = "quiescence" /\ call'.ply # call.ply) => call.ply < 7
      /\ call'.ply <= Max(call'.nominal + 3, 7)
    ]_vars

\* A search of nominal depth 5 that was granted both check extensions and
\* the recapture extension stands at ply 8, at depth 0.
C26_Witness ==
  /\ call.fn = "negamax"
  /\ call.nominal = 5
  /\ call.checkExts = 2
  /\ call.recaptureExts = 1
  /\ call.ply = 8
  /\ call.depth = 0

\* Quiescence below a search of nominal depth 1 went down to ply 7 and
\* returned there.
QuiescencePlySevenReached ==
  /\ call.fn = "quiescence"
  /\ call.nominal = 1
  /\ call.ply = 7
  /\ call.result \in {"evaluateAtPlyLimit", "standPatAtPlyLimit"}

\* The null-move search was called at depth 0 from depth 3.
NullMoveToDepthZeroReached ==
  /\ call.fn = "negamax"
  /\ call.depth = 0
  /\ call.ply = 2
  /\ call.nominal = 4

\* C27: whenever negamax hands over to quiescence at depth 0 with the side
\* to move not in check, the stand-pat score below beta and a capture or
\* promotion that passes quiescence's filters, quiescence searches a move
\* before it returns, at every nominal depth the difficulty allows.
C27_HorizonCapturesAreSearched ==
  (/\ call.fn = "quiescence"
   /\ call.fromHorizon
   /\ ~call.inCheck
   /\ call.standPatBelowBeta
   /\ call.forcing)
  => call.result = "none"

\* A medium search of nominal depth 7, no extension granted: negamax reached
\* depth 0 at ply 7 and quiescence returned the stand-pat score although a
\* capture was there to search.
C27_StandPatReturnedUntested ==
  /\ call.fn = "quiescence"
  /\ call.fromHorizon
  /\ call.difficulty = "medium"
  /\ call.nominal = 7
  /\ call.checkExts = 0
  /\ call.recaptureExts = 0
  /\ call.ply = 7
  /\ ~call.inCheck
  /\ call.standPatBelowBeta
  /\ call.forcing
  /\ call.result = "standPatAtPlyLimit"

\* At nominal depth 4 with three extensions the same happens.
ExtendedHorizonUntestedReached ==
  /\ call.fn = "quiescence"
  /\ call.fromHorizon
  /\ call.nominal = 4
  /\ call.ply = 7
  /\ ~call.inCheck /\ call.standPatBelowBeta /\ call.forcing
  /\ call.result = "standPatAtPlyLimit"

\* At nominal depth 2 the capture at the horizon was searched.
ShallowHorizonSearchedReached ==
  /\ call.fn = "quiescence"
  /\ ~call.fromHorizon
  /\ call.nominal = 2
  /\ call.ply = 3

(***************************************************************************)
(* The node counter through one iterativeSearch (botWorker.ts): checkTime, *)
(* the reset at the top of the deepening loop, the passes of one depth and *)
(* guaranteedDepthOne.  A pass is taken in one step; how many nodes it     *)
(* would visit if nothing stopped it is open.                              *)
(***************************************************************************)
NODE_LIMIT == [easy |-> 160000, medium |-> 700000, hard |-> 1800000]

\* checkTime looks at the limits every CHECK_INTERVAL nodes.
CHECK_INTERVAL == 1024

\* nodeLimit inside guaranteedDepthOne is at least this.
EMERGENCY_NODE_LIMIT == 2000000

\* Searches of one depth after the first (aspiration re-searches) followed.
MaxResearches == 1

\* The nodes a pass visits when nothing stops it: a handful, a few check
\* intervals, and more than any node limit.
PassLengths == {700, 5000, 3000000}

\* The first count after n at which checkTime looks at the limits.
NextCheck(n) == ((n \div CHECK_INTERVAL) + 1) * CHECK_INTERVAL

\* Variant: checkTime tests the node limit at every node.
AbortCount_everyNode(n, limit, late) ==
  IF late THEN NextCheck(n) ELSE Max(n + 1, limit)

\* The count at which checkTime throws in a pass entered with the counter
\* at n: the first multiple of CHECK_INTERVAL above n at which
\* nodesSearched >= nodeLimit, or, with the deadline passed, the next one.
AbortCount(n, limit, late) ==
  IF late THEN NextCheck(n)
  ELSE Max(NextCheck(n), ((limit + CHECK_INTERVAL - 1) \div CHECK_INTERVAL) * CHECK_INTERVAL)

\* iterativeSearch is entered: nodeLimit = NODE_LIMIT[difficulty]; the loop
\* starts depth 1 with nodesSearched = 0.
BudgetInit ==
  /\ \E difficulty \in Difficulty :
       count = [difficulty |-> difficulty, phase |-> "searching", depth |-> 1,
                nodesSearched |-> 0, nodeLimit |-> NODE_LIMIT[difficulty],
                late |-> FALSE, bestResult |-> FALSE, researches |-> 0,
                visited |-> 0, emergencyVisited |-> 0,
                raisedAt |-> 0, raisedAfter |-> 0, aborts |-> 0]
  /\ call = NoCall
  /\ wire = NoWire
  /\ board = EmptyBoard
  /\ input = board
  /\ undo = <<>>
  /\ left = 0
  /\ out = NoOut
  /\ SearchIdle
  /\ BotIdle
  /\ tables = NoTables
  /\ game = NoGame
  /\ heap = NoHeap

\* The counter and the history after a pass that would visit `length`
\* nodes, entered with the deadline passed or not: it runs to its end or
\* to the count at which checkTime throws.
PassRun(c, length, late) ==
  LET stop == AbortCount(c.nodesSearched, c.nodeLimit, late)
      aborted == c.nodesSearched + length >= stop
      reached == IF aborted THEN stop ELSE c.nodesSearched + length
  IN [aborted |-> aborted, nodesSearched |-> reached,
      visitedMore |-> reached - c.nodesSearched]

\* One searchAtDepth call of the deepening loop.  An abort with a root
\* move scored ends the root loop and the list is returned like a finished
\* one; with none scored the deepening loop's catch runs: the emergency
\* search when no depth was accepted yet, otherwise the return.
RunPass ==
  /\ count.phase = "searching"
  /\ \E length \in PassLengths : \E late, someScored \in BOOLEAN :
     \E run \in {PassRun(count, length, late \/ count.late)} :
       count' = [count EXCEPT
                   !.nodesSearched = run.nodesSearched,
                   !.visited = @ + run.visitedMore,
                   !.late = @ \/ late,
                   !.aborts = IF run.aborted THEN @ + 1 ELSE @,
                   !.raisedAt = IF run.aborted THEN run.nodesSearched ELSE @,
                   !.raisedAfter = IF run.aborted THEN count.visited + run.visitedMore ELSE @,
                   !.phase = IF ~run.aborted \/ someScored THEN "passed"
                             ELSE IF count.bestResult THEN "returned"
                             ELSE "emergency"]
  /\ UNCHANGED <<boardVars, searchVars, botVars, tables, game, heap, call, wire>>

\* The result lies outside the aspiration window: the depth is searched
\* again, the counter going on from where it stands.
SearchAgain ==
  /\ count.phase = "passed"
  /\ count.depth >= 2
  /\ count.researches < MaxResearches
  /\ count' = [count EXCEPT !.phase = "searching", !.researches = @ + 1]
  /\ UNCHANGED <<boardVars, searchVars, botVars, tables, game, heap, call, wire>>

\* The depth's result is taken; the loop returns (maxDepth, or the soft
\* deadline from depth 4 on) or starts the next depth with
\* nodesSearched = 0.
NextDepth ==
  /\ count.phase = "passed"
  /\ \/ /\ count.depth >= 4 \/ count.depth + 1 > MAX_DEPTH[count.difficulty]
        /\ count' = [count EXCEPT !.phase = "returned", !.bestResult = TRUE]
     \/ /\ count.depth + 1 <= MAX_DEPTH[count.difficulty]
        /\ count.depth + 1 <= DepthCap
        /\ count' = [count EXCEPT !.phase = "searching", !.bestResult = TRUE,
                                  !.depth = @ + 1, !.researches = 0,
                                  !.nodesSearched = 0]
  /\ UNCHANGED <<boardVars, searchVars, botVars, tables, game, heap, call, wire>>

\* guaranteedDepthOne: nodeLimit = max(nodeLimit, 2000000), nodesSearched =
\* 0, a deadline of its own; the depth-1 pass returns or its abort leaves
\* iterativeSearch; the finally block restores nodeLimit.
RunEmergency ==
  /\ count.phase = "emergency"
  /\ \E length \in PassLengths : \E late, someScored \in BOOLEAN :
     \E run \in {PassRun([count EXCEPT !.nodesSearched = 0,
                                       !.nodeLimit = Max(@, EMERGENCY_NODE_LIMIT)],
                         length, late)} :
       count' = [count EXCEPT
                   !.nodesSearched = run.nodesSearched,
                   !.emergencyVisited = run.visitedMore,
                   !.bestResult = ~run.aborted \/ someScored,
                   !.phase = IF ~run.aborted \/ someScored THEN "returned" ELSE "threw"]
  /\ UNCHANGED <<boardVars, searchVars, botVars, tables, game, heap, call, wire>>

BudgetNext ==
  \/ RunPass
  \/ SearchAgain
  \/ NextDepth
  \/ RunEmergency

SpecBudget == BudgetInit /\ [][BudgetNext]_vars

\* C28: through one iterativeSearch, the emergency search left aside, the
\* nodes visited over all depths and re-searches together never exceed the
\* difficulty's node limit by more than one check interval, and an abort is
\* raised only at a node count that is a multiple of 1024.
C28_NodesWithinCeiling ==
  /\ count.visited <= NODE_LIMIT[count.difficulty] + CHECK_INTERVAL
  /\ count.aborts > 0 => count.raisedAfter % CHECK_INTERVAL = 0

\* An easy search: depth 1 took 700 nodes, depth 2 started the counter at 0
\* again and was stopped at its count 160768, the 161468th node of the
\* invocation.
C28_CeilingExceeded ==
  /\ count.difficulty = "easy"
  /\ count.depth = 2
  /\ count.researches = 0
  /\ count.aborts = 1
  /\ count.raisedAt = 160768
  /\ count.visited = 161468
  /\ count.visited > NODE_LIMIT["easy"] + CHECK_INTERVAL

\* Every abort is raised with the counter nodesSearched at a multiple of
\* the interval, and in the first search of a depth the counter does not
\* pass the limit by a whole interval.
CounterAbortsAtChecks ==
  /\ count.aborts > 0 => count.raisedAt % CHECK_INTERVAL = 0
  /\ (count.researches = 0 /\ count.emergencyVisited = 0)
       => count.nodesSearched < NODE_LIMIT[count.difficulty] + CHECK_INTERVAL

\* Within depth 2 alone: the pass was stopped at the limit with a root move
\* scored, its result fell outside the aspiration window, and the depth
\* was searched again with the counter past the limit until the next check.
ResearchPastLimitReached ==
  /\ count.depth = 2
  /\ count.researches = 1
  /\ count.aborts = 2
  /\ count.nodesSearched >= NODE_LIMIT[count.difficulty] + CHECK_INTERVAL

\* ---------------------------------------------------------------------------
\* Requests and responses on one worker (Bot.requestWorker, self.onmessage)
\* ---------------------------------------------------------------------------

\* The requestWorker calls on workers[0] that the model follows, and the
\* pickMove calls that make them.
MaxRequests == 3

MaxPicks == 2

\* new Promise(...) in requestWorker: latestProgress = null, the timer set,
\* the two listeners added. answer and latestProgress hold the number of the
\* request whose run in the worker produced the response (0: none); the code
\* has no such number, the model keeps it as history.
Promise(pick) ==
  [pick |-> pick, state |-> "outstanding", by |-> "none", answer |-> 0,
   latestProgress |-> 0]

\* The Bot as constructed: no request made, the worker waiting for messages.
WireInit ==
  /\ wire = [requests |-> <<>>, inbox |-> <<>>, running |-> 0, progressed |-> FALSE,
             outbox |-> <<>>, pick |-> 0, waiting |-> FALSE]
  /\ call = NoCall
  /\ count = NoCount
  /\ board = EmptyBoard
  /\ input = board
  /\ undo = <<>>
  /\ left = 0
  /\ out = NoOut
  /\ SearchIdle
  /\ BotIdle
  /\ tables = NoTables
  /\ game = NoGame
  /\ heap = NoHeap

Outstanding(w) == {r \in 1..Len(w.requests) : w.requests[r].state = "outstanding"}

\* The requests of the pickMove call that handleBotTurn is awaiting.
OfPick(w) == {r \in 1..Len(w.requests) : w.requests[r].pick = w.pick}

\* worker.addEventListener('message', onMessage); worker.addEventListener(
\* 'error', onError); worker.postMessage(req): the request joins the worker's
\* message queue behind whatever it has not taken yet.
requestWorker(w, pick) ==
  [w EXCEPT !.requests = Append(@, Promise(pick)),
            !.inbox = Append(@, Len(w.requests) + 1)]

\* endTurn emits botTurn and handleBotTurn calls bot.pickMove(game.board),
\* whose first request goes to workers[0]. handleBotTurn is awaiting no
\* earlier pick of this game: the earlier one has settled, or Game.reset()
\* started a new game while it was pending.
PickMoveAgain ==
  /\ ~wire.waiting
  /\ wire.pick < MaxPicks
  /\ Len(wire.requests) < MaxRequests
  /\ wire' = [requestWorker(wire, wire.pick + 1) EXCEPT !.pick = wire.pick + 1,
                                                        !.waiting = TRUE]
  /\ UNCHANGED <<boardVars, searchVars, botVars, tables, game, heap, call, count>>

\* Game.reset() while the pick is pending: botThinking = false and a new
\* game, so that the next botTurn calls pickMove again on the same Bot.
ResetWhilePending ==
  /\ wire.waiting
  /\ wire' = [wire EXCEPT !.waiting = FALSE]
  /\ UNCHANGED <<boardVars, searchVars, botVars, tables, game, heap, call, count>>

\* pickMove's second request on workers[0]: pickMoveSingle in the catch
\* around pickMoveParallel, or pickMoveParallel's own pickMoveSingle when the
\* workers' depths lie too far apart. The first request has settled.
FallbackToSingle ==
  /\ wire.waiting
  /\ Len(wire.requests) < MaxRequests
  /\ Cardinality(OfPick(wire)) = 1
  /\ OfPick(wire) \cap Outstanding(wire) = {}
  /\ wire' = requestWorker(wire, wire.pick)
  /\ UNCHANGED <<boardVars, searchVars, botVars, tables, game, heap, call, count>>

\* pickMove returns or rejects with its last request settled.
PickSettles ==
  /\ wire.waiting
  /\ OfPick(wire) \cap Outstanding(wire) = {}
  /\ wire' = [wire EXCEPT !.waiting = FALSE]
  /\ UNCHANGED <<boardVars, searchVars, botVars, tables, game, heap, call, count>>

\* self.onmessage is called with the next message of the queue; it runs to
\* its end before the next one is taken.
WorkerTakes ==
  /\ wire.running = 0
  /\ wire.inbox # <<>>
  /\ wire' = [wire EXCEPT !.running = Head(wire.inbox), !.inbox = Tail(@),
                          !.progressed = FALSE]
  /\ UNCHANGED <<boardVars, searchVars, botVars, tables, game, heap, call, count>>

\* The progress callback of iterativeSearch: self.postMessage(progress).
WorkerPostsProgress ==
  /\ wire.running # 0
  /\ ~wire.progressed
  /\ wire' = [wire EXCEPT !.outbox = Append(@, [type |-> "progress", of |-> wire.running]),
                          !.progressed = TRUE]
  /\ UNCHANGED <<boardVars, searchVars, botVars, tables, game, heap, call, count>>

\* self.postMessage(resp) at the end of self.onmessage: the result, or the
\* error of the catch. The response carries nothing that names its request.
WorkerPostsResponse ==
  /\ wire.running # 0
  /\ \E type \in {"result", "error"} :
       wire' = [wire EXCEPT !.outbox = Append(@, [type |-> type, of |-> wire.running]),
                            !.running = 0]
  /\ UNCHANGED <<boardVars, searchVars, botVars, tables, game, heap, call, count>>

\* onMessage of one requestWorker call, given the message event.
onMessage(p, m) ==
  IF p.state # "outstanding" THEN p
  ELSE IF m.type = "progress" THEN [p EXCEPT !.latestProgress = m.of]
  ELSE [p EXCEPT !.state = "resolved", !.by = "message", !.answer = m.of]

\* The page handles the worker's next message event: every onMessage
\* listener still added to the worker is called with it.
DeliverMessage ==
  /\ wire.outbox # <<>>
  /\ wire' = [wire EXCEPT !.outbox = Tail(@),
                          !.requests = [r \in 1..Len(wire.requests) |->
                                          onMessage(wire.requests[r], Head(wire.outbox))]]
  /\ UNCHANGED <<boardVars, searchVars, botVars, tables, game, heap, call, count>>

\* The timer of one requestWorker call fires: cleanup(), then the latest
\* progress as the result, or the rejection. The worker is not told.
RequestTimeout ==
  /\ \E r \in Outstanding(wire) :
       wire' = [wire EXCEPT !.requests[r] =
                  IF wire.requests[r].latestProgress # 0
                    THEN [@ EXCEPT !.state = "resolved", !.by = "timeout",
                                   !.answer = wire.requests[r].latestProgress]
                    ELSE [@ EXCEPT !.state = "rejected", !.by = "timeout"]]
  /\ UNCHANGED <<boardVars, searchVars, botVars, tables, game, heap, call, count>>

\* onError of every requestWorker call still listening: cleanup() and
\* reject(err). The error event ends the run that raised it.
WorkerErrorEvent ==
  /\ wire.running # 0
  /\ wire' = [wire EXCEPT !.running = 0,
                          !.requests = [r \in 1..Len(wire.requests) |->
                                          IF wire.requests[r].state = "outstanding"
                                            THEN [wire.requests[r] EXCEPT !.state = "rejected",
                                                                          !.by = "error"]
                                            ELSE wire.requests[r]]]
  /\ UNCHANGED <<boardVars, searchVars, botVars, tables, game, heap, call, count>>

WireNext ==
  \/ PickMoveAgain
  \/ ResetWhilePending
  \/ FallbackToSingle
  \/ PickSettles
  \/ WorkerTakes
  \/ WorkerPostsProgress
  \/ WorkerPostsResponse
  \/ DeliverMessage
  \/ RequestTimeout
  \/ WorkerErrorEvent

SpecWire == WireInit /\ [][WireNext]_vars

\* C29: every response that settles a requestWorker call was produced by
\* the worker for that same request (a result or a progress posted for an
\* earlier request on the worker never answers a later one), and at most one
\* request per worker is outstanding at any time.
C29_ResponseAnswersItsOwnRequest ==
  /\ \A r \in 1..Len(wire.requests) :
       wire.requests[r].state = "resolved" => wire.requests[r].answer = r
  /\ Cardinality(Outstanding(wire)) <= 1

\* The first request of a pick timed out with nothing completed, the pick
\* fell back to pickMoveSingle on the same worker, and that second request
\* was resolved with the result the worker posted for the first.
C29_TimedOutResultAnswersFallback ==
  /\ Len(wire.requests) >= 2
  /\ wire.requests[1].state = "rejected"
  /\ wire.requests[1].by = "timeout"
  /\ wire.requests[2].pick = wire.requests[1].pick
  /\ wire.requests[2].state = "resolved"
  /\ wire.requests[2].by = "message"
  /\ wire.requests[2].answer = 1

\* After a reset the next pick posts its request while the earlier one is
\* still outstanding: two requests on one worker.
TwoRequestsOutstandingReached ==
  /\ Cardinality(Outstanding(wire)) = 2
  /\ \E r \in Outstanding(wire) : wire.requests[r].pick < wire.pick

\* One result resolves both: the request of the abandoned pick and the
\* request of the new one.
OneResultResolvesTwoReached ==
  \E r, q \in 1..Len(wire.requests) :
    /\ r < q
    /\ wire.requests[r].pick < wire.requests[q].pick
    /\ wire.requests[r].state = "resolved"
    /\ wire.requests[q].state = "resolved"
    /\ wire.requests[r].answer = r
    /\ wire.requests[q].answer = r

\* The progress of an earlier run becomes the timeout result of a later
\* request.
StaleProgressAtTimeoutReached ==
  \E r \in 1..Len(wire.requests) :
    /\ wire.requests[r].state = "resolved"
    /\ wire.requests[r].by = "timeout"
    /\ wire.requests[r].answer # r

\* The ordinary case: a request resolved by the response of its own run.
OwnResultReached ==
  \E r \in 1..Len(wire.requests) :
    /\ wire.requests[r].state = "resolved"
    /\ wire.requests[r].by = "message"
    /\ wire.requests[r].answer = r

\* With one pick and no timeout the responses do belong to their requests:
\* the mismatch needs a request that stopped listening while its run went on,
\* or a second pick.
MatchedWithoutTimeoutOrReset ==
  (/\ wire.pick <= 1
   /\ \A r \in 1..Len(wire.requests) : wire.requests[r].by # "timeout")
    => C29_ResponseAnswersItsOwnRequest

\* ---------------------------------------------------------------------------
\* The Bot's turn once handleBotTurn has ended (SpecGame)
\* ---------------------------------------------------------------------------

\* It is the Bot's turn in a game that is not over.
BotToMove == isBotTurn(game) /\ ~game.gameOver

\* No handleBotTurn call is in flight: none awaits pickMove, none sleeps.
NoSearchPending == game.calls = <<>>

\* The Bot is to move, botThinking is false and no handleBotTurn call is in
\* flight to make the move.
Abandoned == BotToMove /\ ~game.botThinking /\ NoSearchPending

\* C30: in a bot game botThinking is true only while it is the Bot's turn and
\* the game is not over, and the game is never at the Bot's turn with
\* botThinking false and no search pending, a failed or rejected move pick
\* included: the turn that passed to the Bot ends with its move, with the end
\* of the game or with a reset.
C30_BotTurnIsNeverAbandoned ==
  /\ game.botThinking => BotToMove
  /\ ~Abandoned

\* pickMove rejected (the worker's error, or a move that fails pickMove's
\* checks), handleBotTurn's catch cleared botThinking, and the turn is still
\* the Bot's with nothing in flight.
C30_AbandonedAfterFailedPick ==
  /\ Abandoned
  /\ game.last.op = "botFailed"
  /\ game.resets = 0

\* The first half of the sentence alone: botThinking is set only by endTurn
\* on the Bot's turn of a game that goes on, and the turn changes only in
\* endTurn and reset.
BotThinkingOnlyOnBotTurn == game.botThinking => BotToMove

\* Once abandoned the game stays so until Game.reset(): clicks return at
\* isBotTurn(), no promotion is awaited and no message is listened for.
AbandonedUntilReset ==
  [][Abandoned => (Abandoned' \/ game'.last.op = "reset")]_vars

\* The turn passed to the Bot and its move was applied.
BotMoveAppliedReached ==
  /\ game.last.op = "botMove"
  /\ game.currentTurn = White
  /\ ~game.botThinking

====
